---- MODULE Spec2Model ----
(***************************************************************************)
(* botcoder: the response parser (parser.rs, app.rs, main.rs), the tool    *)
(* executor and delta patcher (executor.rs, app.rs, main.rs) and the turn  *)
(* that joins them (chat.rs).  Strings are sequences of one-character      *)
(* strings, so that                                                        *)
(* trimming, searching, splitting and formatting are computed the way the  *)
(* code computes them.                                                     *)
(***************************************************************************)
EXTENDS Integers, Sequences, FiniteSets, TLC

VARIABLES
    items,      \* how the response text was put together (blocks and lines)
    text,       \* the response text handed to the parser
    tools,      \* the parser's result: a sequence of <<name, parameter>>
    parsedBy,   \* which parser produced tools: "none", "parser", "app", "main"
    impl,       \* which executor runs the tool calls: "executor", "app", "main"
    files,      \* the filesystem: location -> [exists, content]
    dirs,       \* the directories that exist
    trace,      \* the tool calls executed so far, each with what it did
    pc,         \* where the chat session is in its turn ("aborted": it panicked)
    next,       \* the position in tools of the next call of the turn
    results,    \* the results accumulated by the turn
    history,    \* the roles of the messages of the conversation
    turns,      \* the turns begun
    clock,      \* the time, in milliseconds
    lim,        \* the rate limiter: its fields, and which of the limiters it is
    ltrace,     \* the limiter's operations so far, each with what it did
    calls       \* where each chat_completions call on the client of llm.rs is

vars == <<items, text, tools, parsedBy, impl, files, dirs, trace,
          pc, next, results, history, turns, clock, lim, ltrace, calls>>

parseVars == <<items, text, tools, parsedBy>>
fsVars    == <<impl, files, dirs, trace>>
turnVars  == <<pc, next, results, history, turns>>
limVars   == <<clock, lim, ltrace, calls>>

-----------------------------------------------------------------------------
(* Bounds *)

MaxItems == 3
MaxCalls == 2
MaxTurns == 2
MaxOps   == 4

\* the limits the limiter is constructed with
MaxTpm          == 100
MinIntervalSecs == 5

-----------------------------------------------------------------------------
(* Strings: Rust's str operations on sequences of characters *)

NL == "\n"
DQUOTE == "\""
SQUOTE == "'"
\* the backtick character (the lexer does not take it inside a string)
BACKTICK == "backtick"
CR == "\r"

MinOf(S) == CHOOSE i \in S : \A j \in S : i <= j
MaxOf(S) == CHOOSE i \in S : \A j \in S : i >= j

is_whitespace(c) == c \in {" ", "\t", "\n", "\r"}

\* s[from..] (from is a 1-based position)
Tail_(s, from) == SubSeq(s, from, Len(s))

starts_with(s, p) == Len(s) >= Len(p) /\ SubSeq(s, 1, Len(p)) = p

\* str::find: the 1-based position of the first occurrence of p in s; 0 is None
find(s, p) ==
    LET at == {i \in 1..(Len(s) - Len(p) + 1) : SubSeq(s, i, i + Len(p) - 1) = p}
    IN  IF at = {} THEN 0 ELSE MinOf(at)

contains(s, p) == find(s, p) # 0

is_empty(s) == Len(s) = 0

\* str::trim
trim(s) ==
    LET keep == {i \in 1..Len(s) : ~is_whitespace(s[i])}
    IN  IF keep = {} THEN <<>> ELSE SubSeq(s, MinOf(keep), MaxOf(keep))

\* str::trim_matches(c)
trim_matches(s, c) ==
    LET keep == {i \in 1..Len(s) : s[i] # c}
    IN  IF keep = {} THEN <<>> ELSE SubSeq(s, MinOf(keep), MaxOf(keep))

\* str::replace(pat, rep): every non-overlapping occurrence, left to right
RECURSIVE replace(_, _, _)
replace(s, pat, rep) ==
    LET i == find(s, pat)
    IN  IF is_empty(pat) \/ i = 0 THEN s
        ELSE SubSeq(s, 1, i - 1) \o rep \o replace(Tail_(s, i + Len(pat)), pat, rep)

\* str::lines: split at "\n", a trailing "\r" of a line dropped, no last empty line
RECURSIVE lines(_)
lines(s) ==
    IF is_empty(s) THEN <<>>
    ELSE LET i    == find(s, <<NL>>)
             raw  == IF i = 0 THEN s ELSE SubSeq(s, 1, i - 1)
             line == IF ~is_empty(raw) /\ raw[Len(raw)] = CR
                     THEN SubSeq(raw, 1, Len(raw) - 1) ELSE raw
         IN  IF i = 0 THEN <<line>> ELSE <<line>> \o lines(Tail_(s, i + 1))

\* str::splitn(2, sep).collect()
splitn2(s, sep) ==
    LET i == find(s, sep)
    IN  IF i = 0 THEN <<s>> ELSE <<SubSeq(s, 1, i - 1), Tail_(s, i + Len(sep))>>

\* Option<String>
None == [some |-> FALSE, val |-> <<>>]
Some(v) == [some |-> TRUE, val |-> v]

-----------------------------------------------------------------------------
(* Literals of the protocol *)

CHANGE_PREFIX  == <<"C","H","A","N","G","E",":">>
MARK_CURRENT   == <<"<","<","<","<","<","<","<"," ","C","U","R","R","E","N","T">>
MARK_SEP       == <<"=","=","=","=","=","=","=">>
MARK_NEW       == <<">",">",">",">",">",">",">"," ","N","E","W">>
MARK_LT        == <<"<","<","<","<","<","<","<">>
MARK_GT        == <<">",">",">",">",">",">",">">>
DELTA_SEP      == <<":",":",":">>
FENCE          == <<BACKTICK, BACKTICK, BACKTICK>>
FENCE_RUST     == FENCE \o <<"r","u","s","t">>
FENCE_SH       == FENCE \o <<"s","h">>
FENCE_BASH     == FENCE \o <<"b","a","s","h">>
READ_FILE      == <<"r","e","a","d","_","f","i","l","e">>
EXECUTE_COMMAND == <<"e","x","e","c","u","t","e","_","c","o","m","m","a","n","d">>

\* the code-fence removal that opens every extract_tools
strip_fences(t) ==
    replace(replace(replace(replace(t, FENCE_RUST, <<>>), FENCE_SH, <<>>),
                    FENCE_BASH, <<>>), FENCE, <<>>)

-----------------------------------------------------------------------------
(* parser.rs: ResponseParser *)

extract_between_quotes(t0) ==
    LET t == trim(t0)
    IN  IF starts_with(t, <<DQUOTE>>)
        THEN LET e == find(Tail_(t, 2), <<DQUOTE>>)
             IN  IF e # 0 THEN Some(SubSeq(t, 2, e)) ELSE None
        ELSE IF starts_with(t, <<SQUOTE>>)
        THEN LET e == find(Tail_(t, 2), <<SQUOTE>>)
             IN  IF e # 0 THEN Some(SubSeq(t, 2, e)) ELSE None
        ELSE None

\* a variant that takes what follows a tool name that is only mentioned
extract_tool_param_bare(line, tool) ==
    LET at == find(line, tool)
    IN  IF at # 0 THEN Some(trim(Tail_(line, at + Len(tool)))) ELSE None

\* line[start + tool.len() + 1..start + end] panics when it begins after its end
slice_in_range(line, tool) ==
    LET start == find(line, tool \o <<"(">>)
        end   == IF start = 0 THEN 0 ELSE find(Tail_(line, start), <<")">>)
    IN  (start # 0 /\ end # 0) => start + Len(tool) + 1 <= start + end

extract_tool_param(line, tool) ==
    LET start  == find(line, tool \o <<"(">>)
        end    == IF start = 0 THEN 0 ELSE find(Tail_(line, start), <<")">>)
        param  == trim_matches(trim_matches(
                      SubSeq(line, start + Len(tool) + 1, start + end - 2),
                      DQUOTE), SQUOTE)
        start2 == find(line, tool \o <<":">>)
    IN  IF start # 0 /\ end # 0 /\ ~is_empty(param) THEN Some(param)
        ELSE IF start2 # 0
        THEN extract_between_quotes(trim(Tail_(line, start2 + Len(tool) + 1)))
        ELSE None

RECURSIVE simple_scan(_, _, _)
simple_scan(ls, i, acc) ==
    IF i > Len(ls) THEN acc
    ELSE LET line == trim(ls[i])
             rf   == IF contains(line, READ_FILE)
                     THEN extract_tool_param(line, READ_FILE) ELSE None
             ec   == IF contains(line, EXECUTE_COMMAND)
                     THEN extract_tool_param(line, EXECUTE_COMMAND) ELSE None
         IN  IF \/ is_empty(line)
                \/ starts_with(line, CHANGE_PREFIX)
                \/ starts_with(line, MARK_LT)
                \/ starts_with(line, MARK_SEP)
                \/ starts_with(line, MARK_GT)
             THEN simple_scan(ls, i + 1, acc)
             ELSE IF rf.some
             THEN simple_scan(ls, i + 1, Append(acc, <<"read_file", rf.val>>))
             ELSE IF ec.some
             THEN simple_scan(ls, i + 1, Append(acc, <<"execute_command", ec.val>>))
             ELSE simple_scan(ls, i + 1, acc)

extract_simple_tools(t) == simple_scan(lines(t), 1, <<>>)

\* the first position >= i whose trimmed line starts with mark; Len(ls) + 1 if none
skip_until(ls, i, mark) ==
    LET hit == {j \in i..Len(ls) : starts_with(trim(ls[j]), mark)}
    IN  IF hit = {} THEN Len(ls) + 1 ELSE MinOf(hit)

\* push_str(line) and push of a newline, for the lines from..to
RECURSIVE push_lines(_, _, _)
push_lines(ls, from, to) ==
    IF from > to THEN <<>> ELSE ls[from] \o <<NL>> \o push_lines(ls, from + 1, to)

\* delta_param with the two contents in each other's place
delta_param_swapped(path, current, new) ==
    path \o DELTA_SEP \o trim(new) \o <<NL>> \o trim(current)

\* format!("{}:::{}\n{}", path, current.trim(), new.trim())
delta_param(path, current, new) ==
    path \o DELTA_SEP \o trim(current) \o <<NL>> \o trim(new)

RECURSIVE delta_scan(_, _, _)
delta_scan(ls, i, acc) ==
    IF i > Len(ls) THEN acc
    ELSE LET line == trim(ls[i])
         IN  IF starts_with(line, CHANGE_PREFIX)
             THEN LET file_path == trim(replace(line, CHANGE_PREFIX, <<>>))
                      a == skip_until(ls, i + 1, MARK_CURRENT)
                      b == skip_until(ls, a + 1, MARK_SEP)
                      c == skip_until(ls, b + 1, MARK_NEW)
                  IN  IF a > Len(ls) \/ b > Len(ls) \/ c > Len(ls) THEN acc
                      ELSE delta_scan(ls, c + 1,
                               Append(acc, <<"write_file_delta",
                                   delta_param(file_path,
                                               push_lines(ls, a + 1, b - 1),
                                               push_lines(ls, b + 1, c - 1))>>))
             ELSE delta_scan(ls, i + 1, acc)

extract_delta_format(t) == delta_scan(lines(t), 1, <<>>)

\* the same scan, keeping for each call it emits the lines it was taken from:
\* the CHANGE: line and the three markers
RECURSIVE delta_blocks(_, _, _)
delta_blocks(ls, i, acc) ==
    IF i > Len(ls) THEN acc
    ELSE IF starts_with(trim(ls[i]), CHANGE_PREFIX)
    THEN LET a == skip_until(ls, i + 1, MARK_CURRENT)
             b == skip_until(ls, a + 1, MARK_SEP)
             c == skip_until(ls, b + 1, MARK_NEW)
         IN  IF a > Len(ls) \/ b > Len(ls) \/ c > Len(ls) THEN acc
             ELSE delta_blocks(ls, c + 1,
                      Append(acc, [change |-> i, current |-> a,
                                   separator |-> b, terminator |-> c]))
    ELSE delta_blocks(ls, i + 1, acc)

\* extract_tools returning the simple calls together with the patch blocks
extract_tools_union(t) ==
    LET cleaned == strip_fences(t)
    IN  extract_delta_format(cleaned) \o extract_simple_tools(cleaned)

extract_tools(t) ==
    LET cleaned     == strip_fences(t)
        delta_tools == extract_delta_format(cleaned)
    IN  IF ~is_empty(delta_tools) THEN delta_tools
        ELSE extract_simple_tools(cleaned)

\* extract_tools panics when a slice of extract_tool_param is out of range
extract_tools_panics(t) ==
    LET ls == lines(strip_fences(t))
    IN  \E i \in 1..Len(ls), tool \in {READ_FILE, EXECUTE_COMMAND} :
            /\ contains(trim(ls[i]), tool)
            /\ ~slice_in_range(trim(ls[i]), tool)

-----------------------------------------------------------------------------
(* app.rs: extract_tools *)

RECURSIVE app_read_scan(_, _, _)
app_read_scan(ls, i, acc) ==
    IF i > Len(ls) THEN acc
    ELSE LET line       == ls[i]
             start      == find(line, READ_FILE \o <<"(">>)
             after_open == Tail_(line, start + 10)
             end        == find(after_open, <<")">>)
             param      == trim_matches(trim_matches(
                               trim(SubSeq(after_open, 1, end - 1)), DQUOTE), SQUOTE)
         IN  IF start # 0 /\ end # 0 /\ ~is_empty(param)
             THEN app_read_scan(ls, i + 1, Append(acc, <<"read_file", param>>))
             ELSE app_read_scan(ls, i + 1, acc)

RECURSIVE app_command_scan(_, _, _)
app_command_scan(ls, i, acc) ==
    IF i > Len(ls) THEN acc
    ELSE LET line        == ls[i]
             start       == find(line, EXECUTE_COMMAND \o <<"(">>)
             after_open  == Tail_(line, start + 16)
             end         == find(after_open, <<")">>)
             content     == SubSeq(after_open, 1, end - 1)
             quote_start == find(content, <<DQUOTE>>)
             rest        == Tail_(content, quote_start + 1)
             quote_end   == find(rest, <<DQUOTE>>)
             param       == SubSeq(rest, 1, quote_end - 1)
         IN  IF /\ start # 0 /\ end # 0 /\ quote_start # 0 /\ quote_end # 0
                /\ ~is_empty(param)
             THEN app_command_scan(ls, i + 1, Append(acc, <<"execute_command", param>>))
             ELSE app_command_scan(ls, i + 1, acc)

\* the inner loop of a CHANGE: block; at is the line of the break, or Len(ls) + 1
RECURSIVE app_block_scan(_, _, _, _, _, _)
app_block_scan(ls, i, in_current, in_new, current_content, new_content) ==
    IF i > Len(ls)
    THEN [at |-> i, current |-> current_content, new |-> new_content]
    ELSE LET current_line == ls[i]
         IN  IF contains(current_line, MARK_CURRENT)
             THEN app_block_scan(ls, i + 1, TRUE, FALSE, current_content, new_content)
             ELSE IF contains(current_line, MARK_SEP)
             THEN app_block_scan(ls, i + 1, FALSE, TRUE, current_content, new_content)
             ELSE IF contains(current_line, MARK_NEW)
             THEN [at |-> i, current |-> current_content, new |-> new_content]
             ELSE IF in_current
             THEN app_block_scan(ls, i + 1, in_current, in_new,
                                 current_content \o current_line \o <<NL>>, new_content)
             ELSE IF in_new
             THEN app_block_scan(ls, i + 1, in_current, in_new,
                                 current_content, new_content \o current_line \o <<NL>>)
             ELSE app_block_scan(ls, i + 1, in_current, in_new,
                                 current_content, new_content)

RECURSIVE app_change_scan(_, _, _)
app_change_scan(ls, i, acc) ==
    IF i > Len(ls) THEN acc
    ELSE LET line == trim(ls[i])
         IN  IF starts_with(line, CHANGE_PREFIX)
             THEN LET file_path == trim(replace(line, CHANGE_PREFIX, <<>>))
                      blk       == app_block_scan(ls, i + 1, FALSE, FALSE, <<>>, <<>>)
                  IN  app_change_scan(ls, blk.at + 1,
                          IF ~is_empty(file_path)
                          THEN Append(acc, <<"write_file_delta",
                                   delta_param(file_path, blk.current, blk.new)>>)
                          ELSE acc)
             ELSE app_change_scan(ls, i + 1, acc)

\* "Remove duplicates": keep the first of equal entries
RECURSIVE unique_tools(_, _)
unique_tools(ts, acc) ==
    IF is_empty(ts) THEN acc
    ELSE unique_tools(Tail(ts),
             IF \E k \in 1..Len(acc) : acc[k] = Head(ts) THEN acc
             ELSE Append(acc, Head(ts)))

app_extract_tools(t) ==
    LET cleaned == strip_fences(t)
        ls      == lines(cleaned)
        reads   == IF contains(cleaned, READ_FILE)
                   THEN app_read_scan(ls, 1, <<>>) ELSE <<>>
        cmds    == IF contains(cleaned, EXECUTE_COMMAND)
                   THEN app_command_scan(ls, 1, reads) ELSE reads
        all     == IF contains(cleaned, CHANGE_PREFIX)
                   THEN app_change_scan(ls, 1, cmds) ELSE cmds
    IN  unique_tools(all, <<>>)

-----------------------------------------------------------------------------
(* main.rs: extract_tools *)

RECURSIVE main_read_scan(_, _, _)
main_read_scan(ls, i, acc) ==
    IF i > Len(ls) THEN acc
    ELSE LET line  == ls[i]
             start == find(line, READ_FILE \o <<"(">>)
             end   == IF start = 0 THEN 0 ELSE find(Tail_(line, start), <<")">>)
             param == trim_matches(trim_matches(
                          trim(SubSeq(line, start + 10, start + end - 2)),
                          DQUOTE), SQUOTE)
         IN  IF start # 0 /\ end # 0 /\ ~is_empty(param)
             THEN main_read_scan(ls, i + 1, Append(acc, <<"read_file", param>>))
             ELSE main_read_scan(ls, i + 1, acc)

\* the text between the first two q of content, if there are two
between_first(content, q) ==
    LET quote_start == find(content, <<q>>)
        rest        == Tail_(content, quote_start + 1)
        quote_end   == find(rest, <<q>>)
    IN  IF quote_start # 0 /\ quote_end # 0
        THEN Some(SubSeq(rest, 1, quote_end - 1)) ELSE None

\* execute_command("command"): the slice after the name starts at the "("
main_command_call(line, start) ==
    LET after_open == Tail_(line, start + 15)
        end        == find(after_open, <<")">>)
        content    == SubSeq(after_open, 1, end - 1)
    IN  IF end = 0 THEN None
        ELSE IF contains(content, <<DQUOTE>>) THEN between_first(content, DQUOTE)
        ELSE IF contains(content, <<SQUOTE>>) THEN between_first(content, SQUOTE)
        ELSE None

\* execute_command: "command": the slice after the name starts at the ":"
main_command_label(line, start) ==
    LET after_colon == trim(Tail_(line, start + 15))
        stops       == {k \in 1..Len(after_colon) :
                           after_colon[k] \in {")", "]", BACKTICK, NL}}
        first       == IF stops = {} THEN after_colon
                       ELSE SubSeq(after_colon, 1, MinOf(stops) - 1)
    IN  IF starts_with(after_colon, <<DQUOTE>>)
        THEN between_first(after_colon, DQUOTE)
        ELSE IF starts_with(after_colon, <<SQUOTE>>)
        THEN between_first(after_colon, SQUOTE)
        ELSE Some(trim(first))

RECURSIVE main_command_scan(_, _, _)
main_command_scan(ls, i, acc) ==
    IF i > Len(ls) THEN acc
    ELSE LET line  == ls[i]
             call  == find(line, EXECUTE_COMMAND \o <<"(">>)
             label == find(line, EXECUTE_COMMAND \o <<":">>)
             param == IF call # 0 THEN main_command_call(line, call)
                      ELSE IF label # 0 THEN main_command_label(line, label)
                      ELSE None
         IN  IF param.some /\ ~is_empty(param.val)
             THEN main_command_scan(ls, i + 1,
                                    Append(acc, <<"execute_command", param.val>>))
             ELSE main_command_scan(ls, i + 1, acc)

\* the change held by the scan is saved unless it has CURRENT content and no NEW
main_save(st) ==
    IF ~is_empty(st.current_file)
       /\ (~is_empty(st.new_content) \/ is_empty(st.current_content))
    THEN Append(st.tools, <<"write_file_delta",
             delta_param(st.current_file, st.current_content, st.new_content)>>)
    ELSE st.tools

RECURSIVE main_change_scan(_, _, _)
main_change_scan(ls, i, st) ==
    IF i > Len(ls) THEN main_save(st)
    ELSE LET line    == ls[i]
             trimmed == trim(line)
         IN  IF starts_with(trimmed, CHANGE_PREFIX)
             THEN main_change_scan(ls, i + 1,
                      [current_file    |-> trim(replace(trimmed, CHANGE_PREFIX, <<>>)),
                       in_change       |-> TRUE,
                       in_current      |-> FALSE,
                       in_new          |-> FALSE,
                       current_content |-> <<>>,
                       new_content     |-> <<>>,
                       tools           |-> main_save(st)])
             ELSE IF st.in_change /\ contains(trimmed, MARK_CURRENT)
             THEN main_change_scan(ls, i + 1,
                      [st EXCEPT !.in_current = TRUE, !.in_new = FALSE])
             ELSE IF st.in_change /\ contains(trimmed, MARK_SEP)
             THEN main_change_scan(ls, i + 1,
                      [st EXCEPT !.in_current = FALSE, !.in_new = TRUE])
             ELSE IF st.in_change /\ contains(trimmed, MARK_NEW)
             THEN main_change_scan(ls, i + 1,
                      [st EXCEPT !.in_new = FALSE, !.in_change = FALSE,
                                 !.tools = main_save(st),
                                 !.current_file = <<>>,
                                 !.current_content = <<>>,
                                 !.new_content = <<>>])
             ELSE IF st.in_current
             THEN main_change_scan(ls, i + 1,
                      [st EXCEPT !.current_content = @ \o line \o <<NL>>])
             ELSE IF st.in_new
             THEN main_change_scan(ls, i + 1,
                      [st EXCEPT !.new_content = @ \o line \o <<NL>>])
             ELSE main_change_scan(ls, i + 1, st)

main_extract_tools(t) ==
    LET cleaned == strip_fences(t)
        ls      == lines(cleaned)
        reads   == IF contains(cleaned, READ_FILE)
                   THEN main_read_scan(ls, 1, <<>>) ELSE <<>>
        cmds    == IF contains(cleaned, EXECUTE_COMMAND)
                   THEN main_command_scan(ls, 1, reads) ELSE reads
        all     == IF contains(cleaned, CHANGE_PREFIX)
                   THEN main_change_scan(ls, 1,
                            [current_file |-> <<>>, in_change |-> FALSE,
                             in_current |-> FALSE, in_new |-> FALSE,
                             current_content |-> <<>>, new_content |-> <<>>,
                             tools |-> cmds])
                   ELSE cmds
    IN  unique_tools(all, <<>>)

-----------------------------------------------------------------------------
(* The filesystem under std::fs and std::path *)

SLASH  == <<"/">>
DOTDOT == <<".", ".">>

\* ToolExecutor::project_root, the root handed to execute_tool
project_root == <<"/", "w">>

NoFile == [exists |-> FALSE, readable |-> FALSE, content |-> <<>>]
File(c) == [exists |-> TRUE, readable |-> TRUE, content |-> c]

\* a file that exists and that fs::read_to_string fails on: its bytes c are not
\* valid UTF-8; fs::write replaces it like any other file
Unreadable(c) == [exists |-> TRUE, readable |-> FALSE, content |-> c]

\* fs::read_to_string returns Ok
read_ok(f) == f.exists /\ f.readable

\* Path::is_absolute (Unix)
is_absolute(p) == starts_with(p, SLASH)

\* Path::join: an absolute argument replaces the base
path_join(base, p) == IF is_absolute(p) THEN p ELSE base \o SLASH \o p

\* Path::parent
path_parent(p) ==
    LET at == {i \in 1..Len(p) : p[i] = "/"}
    IN  IF at = {} \/ p = SLASH THEN None
        ELSE IF MaxOf(at) = 1 THEN Some(SLASH)
        ELSE Some(SubSeq(p, 1, MaxOf(at) - 1))

\* a directory and every directory above it
RECURSIVE ancestors(_)
ancestors(d) ==
    LET up == path_parent(d)
    IN  IF up.some THEN {d} \cup ancestors(up.val) ELSE {d}

\* fs::create_dir_all
create_dir_all(ds, d) == ds \cup ancestors(d)

\* fs::write succeeds when the directory of the file exists
can_write(ds, loc) == LET up == path_parent(loc) IN up.some /\ up.val \in ds

Access(op, loc) == [op |-> op, at |-> loc]

\* what a tool call leaves behind: the filesystem, its accesses, its result;
\* applied records the arguments apply_delta was entered with
Outcome(fl, ds, log, applied, kind, body) ==
    [files |-> fl, dirs |-> ds, log |-> log, applied |-> applied,
     kind |-> kind, body |-> body]

NotApplied == [called |-> FALSE, at |-> <<>>, old |-> <<>>, new |-> <<>>]
Applied(loc, old, new) == [called |-> TRUE, at |-> loc, old |-> old, new |-> new]

-----------------------------------------------------------------------------
(* executor.rs: ToolExecutor *)

\* apply_delta_create without fs::create_dir_all
apply_delta_create_flat(fl, ds, loc, old_content, new_content) ==
    LET log  == <<Access("read_to_string", loc), Access("write", loc)>>
        appl == Applied(loc, old_content, new_content)
    IN  IF can_write(ds, loc)
        THEN Outcome([fl EXCEPT ![loc] = File(new_content)], ds, log, appl,
                     "Created", loc)
        ELSE Outcome(fl, ds, log, appl, "ErrorCreating", loc)

\* the Err(_) arm of read_to_string: create the parent directories, write
apply_delta_create(fl, ds, loc, old_content, new_content) ==
    LET up   == path_parent(loc)
        ds1  == IF up.some THEN create_dir_all(ds, up.val) ELSE ds
        log  == <<Access("read_to_string", loc)>>
                \o (IF up.some THEN <<Access("create_dir_all", up.val)>> ELSE <<>>)
                \o <<Access("write", loc)>>
        appl == Applied(loc, old_content, new_content)
    IN  IF can_write(ds1, loc)
        THEN Outcome([fl EXCEPT ![loc] = File(new_content)], ds1, log, appl,
                     "Created", loc)
        ELSE Outcome(fl, ds1, log, appl, "ErrorCreating", loc)

\* old_content.is_empty(): overwrite the whole file
apply_delta_replace(fl, ds, loc, old_content, new_content) ==
    Outcome([fl EXCEPT ![loc] = File(new_content)], ds,
            <<Access("read_to_string", loc), Access("write", loc)>>,
            Applied(loc, old_content, new_content), "Replaced", loc)

\* str::rfind: the position of the last occurrence of p in s; 0 is None
rfind(s, p) ==
    LET at == {i \in 1..(Len(s) - Len(p) + 1) : SubSeq(s, i, i + Len(p) - 1) = p}
    IN  IF at = {} THEN 0 ELSE MaxOf(at)

\* apply_delta_patch splicing at the last occurrence
apply_delta_patch_last(fl, ds, loc, old_content, new_content) ==
    LET existing == fl[loc].content
        pos      == rfind(existing, old_content)
        updated  == SubSeq(existing, 1, pos - 1) \o new_content
                    \o Tail_(existing, pos + Len(old_content))
        appl     == Applied(loc, old_content, new_content)
    IN  IF pos # 0
        THEN Outcome([fl EXCEPT ![loc] = File(updated)], ds,
                     <<Access("read_to_string", loc), Access("write", loc)>>,
                     appl, "Applied", loc)
        ELSE Outcome(fl, ds, <<Access("read_to_string", loc)>>,
                     appl, "NotFound", loc)

\* apply_delta_patch keeping old_content after the inserted new_content
apply_delta_patch_insert(fl, ds, loc, old_content, new_content) ==
    LET existing == fl[loc].content
        pos      == find(existing, old_content)
        updated  == SubSeq(existing, 1, pos - 1) \o new_content
                    \o Tail_(existing, pos)
        appl     == Applied(loc, old_content, new_content)
    IN  IF pos # 0
        THEN Outcome([fl EXCEPT ![loc] = File(updated)], ds,
                     <<Access("read_to_string", loc), Access("write", loc)>>,
                     appl, "Applied", loc)
        ELSE Outcome(fl, ds, <<Access("read_to_string", loc)>>,
                     appl, "NotFound", loc)

\* apply_delta_patch falling back to a whole-file write when nothing matches
apply_delta_patch_fallback(fl, ds, loc, old_content, new_content) ==
    LET existing == fl[loc].content
        pos      == find(existing, old_content)
        updated  == IF pos # 0
                    THEN SubSeq(existing, 1, pos - 1) \o new_content
                         \o Tail_(existing, pos + Len(old_content))
                    ELSE new_content
    IN  Outcome([fl EXCEPT ![loc] = File(updated)], ds,
                <<Access("read_to_string", loc), Access("write", loc)>>,
                Applied(loc, old_content, new_content), "Applied", loc)

\* existing.find(old_content): splice at the first occurrence, or report
apply_delta_patch(fl, ds, loc, old_content, new_content) ==
    LET existing == fl[loc].content
        pos      == find(existing, old_content)
        updated  == SubSeq(existing, 1, pos - 1) \o new_content
                    \o Tail_(existing, pos + Len(old_content))
        appl     == Applied(loc, old_content, new_content)
    IN  IF pos # 0
        THEN Outcome([fl EXCEPT ![loc] = File(updated)], ds,
                     <<Access("read_to_string", loc), Access("write", loc)>>,
                     appl, "Applied", loc)
        ELSE Outcome(fl, ds, <<Access("read_to_string", loc)>>,
                     appl, "NotFound", loc)

\* apply_delta without the old_content.is_empty() arm
apply_delta_always_find(fl, ds, loc, old_content, new_content) ==
    IF ~read_ok(fl[loc])
    THEN apply_delta_create(fl, ds, loc, old_content, new_content)
    ELSE apply_delta_patch(fl, ds, loc, old_content, new_content)

apply_delta(fl, ds, loc, old_content, new_content) ==
    IF ~read_ok(fl[loc])
    THEN apply_delta_create(fl, ds, loc, old_content, new_content)
    ELSE IF is_empty(old_content)
    THEN apply_delta_replace(fl, ds, loc, old_content, new_content)
    ELSE apply_delta_patch(fl, ds, loc, old_content, new_content)

\* the guard of read_file and write_file_delta
unsafe_path(p) == is_absolute(p) \/ contains(p, DOTDOT)

read_file(fl, ds, path) ==
    IF unsafe_path(path)
    THEN Outcome(fl, ds, <<>>, NotApplied, "UnsafePath", <<>>)
    ELSE LET full_path == path_join(project_root, path)
             log       == <<Access("read_to_string", full_path)>>
         IN  IF read_ok(fl[full_path])
             THEN Outcome(fl, ds, log, NotApplied, "Content", fl[full_path].content)
             ELSE Outcome(fl, ds, log, NotApplied, "ErrorReading", <<>>)

\* a variant that takes a delta without a newline as old content alone
write_file_delta_lenient(fl, ds, param) ==
    LET parts         == splitn2(param, DELTA_SEP)
        content_parts == splitn2(parts[2], <<NL>>)
    IN  IF Len(parts) # 2
        THEN Outcome(fl, ds, <<>>, NotApplied, "InvalidDeltaFormat", <<>>)
        ELSE IF unsafe_path(parts[1])
        THEN Outcome(fl, ds, <<>>, NotApplied, "UnsafePath", <<>>)
        ELSE IF Len(content_parts) # 2
        THEN apply_delta(fl, ds, path_join(project_root, parts[1]),
                         trim(content_parts[1]), <<>>)
        ELSE apply_delta(fl, ds, path_join(project_root, parts[1]),
                         trim(content_parts[1]), trim(content_parts[2]))

\* the path, old content and new content write_file_delta takes from a
\* parameter that has both separators
delta_parts(param) ==
    LET parts         == splitn2(param, DELTA_SEP)
        content_parts == splitn2(parts[2], <<NL>>)
    IN  <<parts[1], trim(content_parts[1]), trim(content_parts[2])>>

write_file_delta(fl, ds, param) ==
    LET parts         == splitn2(param, DELTA_SEP)
        content_parts == splitn2(parts[2], <<NL>>)
    IN  IF Len(parts) # 2
        THEN Outcome(fl, ds, <<>>, NotApplied, "InvalidDeltaFormat", <<>>)
        ELSE IF unsafe_path(parts[1])
        THEN Outcome(fl, ds, <<>>, NotApplied, "UnsafePath", <<>>)
        ELSE IF Len(content_parts) # 2
        THEN Outcome(fl, ds, <<>>, NotApplied, "InvalidDeltaContent", <<>>)
        ELSE apply_delta(fl, ds, path_join(project_root, parts[1]),
                         trim(content_parts[1]), trim(content_parts[2]))

\* the report of a command that ran: stdout, stderr and exit code as one text;
\* what the command does to the files is not modelled
command_report(fl, ds, cmd) ==
    Outcome(fl, ds, <<>>, NotApplied, "CommandReport", cmd)

\* sh -c in the project root; spawned is whether Command::output() gave Ok:
\* .unwrap() of an Err panics
execute_command(fl, ds, cmd, spawned) ==
    IF spawned THEN command_report(fl, ds, cmd)
    ELSE Outcome(fl, ds, <<>>, NotApplied, "Panic", <<>>)

execute(fl, ds, tool, param, spawned) ==
    CASE tool = "read_file"        -> read_file(fl, ds, param)
      [] tool = "write_file_delta" -> write_file_delta(fl, ds, param)
      [] tool = "execute_command"  -> execute_command(fl, ds, param, spawned)
      [] OTHER -> Outcome(fl, ds, <<>>, NotApplied, "UnknownTool", <<>>)

-----------------------------------------------------------------------------
(* app.rs: execute_tool *)

app_apply_delta(fl, ds, loc, old_content, new_content) ==
    apply_delta(fl, ds, loc, old_content, new_content)

app_execute_command(fl, ds, cmd, spawned) ==
    IF spawned THEN command_report(fl, ds, cmd)
    ELSE Outcome(fl, ds, <<>>, NotApplied, "ErrorExecuting", <<>>)

app_execute_tool(fl, ds, tool, param, spawned) ==
    CASE tool = "read_file" ->
           LET path == path_join(project_root, param)
               log  == <<Access("read_to_string", path)>>
           IN  IF read_ok(fl[path])
               THEN Outcome(fl, ds, log, NotApplied, "Content", fl[path].content)
               ELSE Outcome(fl, ds, log, NotApplied, "ErrorReading", <<>>)
      [] tool = "write_file_delta" ->
           LET parts         == splitn2(param, DELTA_SEP)
               content_parts == splitn2(parts[2], <<NL>>)
           IN  IF Len(parts) # 2
               THEN Outcome(fl, ds, <<>>, NotApplied, "InvalidDeltaFormat", <<>>)
               ELSE IF Len(content_parts) # 2
               THEN Outcome(fl, ds, <<>>, NotApplied, "InvalidDeltaContent", <<>>)
               ELSE app_apply_delta(fl, ds, path_join(project_root, trim(parts[1])),
                                    trim(content_parts[1]), trim(content_parts[2]))
      [] tool = "execute_command" -> app_execute_command(fl, ds, param, spawned)
      [] OTHER -> Outcome(fl, ds, <<>>, NotApplied, "UnknownTool", <<>>)

-----------------------------------------------------------------------------
(* main.rs: execute_tool *)

main_apply_delta(fl, ds, loc, old_content, new_content) ==
    apply_delta(fl, ds, loc, old_content, new_content)

main_execute_command(fl, ds, cmd, spawned) ==
    IF spawned THEN command_report(fl, ds, cmd)
    ELSE Outcome(fl, ds, <<>>, NotApplied, "Panic", <<>>)

main_execute_tool(fl, ds, tool, param, spawned) ==
    CASE tool = "read_file" ->
           LET path == path_join(project_root, param)
               log  == <<Access("read_to_string", path)>>
           IN  IF read_ok(fl[path])
               THEN Outcome(fl, ds, log, NotApplied, "Content", fl[path].content)
               ELSE Outcome(fl, ds, log, NotApplied, "ErrorReading", <<>>)
      [] tool = "write_file_delta" ->
           LET parts         == splitn2(param, DELTA_SEP)
               content_parts == splitn2(parts[2], <<NL>>)
           IN  IF Len(parts) # 2
               THEN Outcome(fl, ds, <<>>, NotApplied, "InvalidDeltaFormat", <<>>)
               ELSE IF Len(content_parts) # 2
               THEN Outcome(fl, ds, <<>>, NotApplied, "InvalidDeltaContent", <<>>)
               ELSE main_apply_delta(fl, ds, path_join(project_root, parts[1]),
                                     trim(content_parts[1]), trim(content_parts[2]))
      [] tool = "execute_command" -> main_execute_command(fl, ds, param, spawned)
      [] OTHER -> Outcome(fl, ds, <<>>, NotApplied, "UnknownTool", <<>>)

-----------------------------------------------------------------------------
(* Response texts: blocks and lines, joined by newlines *)

S_a      == <<"a">>
S_b      == <<"b">>
S_c      == <<"c">>
S_x      == <<"x">>
S_y      == <<"y">>
S_atxt   == <<"a",".","t","x","t">>
S_ls     == <<"l","s">>
S_ok     == <<"o","k">>

change_line(path) == CHANGE_PREFIX \o <<" ">> \o path

\* a complete patch block
Block(path, current, new) ==
    [kind |-> "block", path |-> path, current |-> current, new |-> new,
     lines |-> <<change_line(path), MARK_CURRENT>> \o current
               \o <<MARK_SEP>> \o new \o <<MARK_NEW>>]

\* a block cut off before its >>>>>>> NEW line
NoTerminator(path, current, new) ==
    [kind |-> "cut", path |-> path, current |-> current, new |-> new,
     lines |-> <<change_line(path), MARK_CURRENT>> \o current
               \o <<MARK_SEP>> \o new]

\* a block cut off inside its CURRENT part
NoSeparator(path, current) ==
    [kind |-> "cut", path |-> path, current |-> current, new |-> <<>>,
     lines |-> <<change_line(path), MARK_CURRENT>> \o current]

\* a CHANGE: line with nothing after it
ChangeOnly(path) ==
    [kind |-> "cut", path |-> path, current |-> <<>>, new |-> <<>>,
     lines |-> <<change_line(path)>>]

Line(l) == [kind |-> "line", path |-> <<>>, current |-> <<>>, new |-> <<>>,
            lines |-> <<l>>]

call_syntax(tool, arg)  == tool \o <<"(", DQUOTE>> \o arg \o <<DQUOTE, ")">>
label_syntax(tool, arg) == tool \o <<":", " ", DQUOTE>> \o arg \o <<DQUOTE>>

ItemSet ==
    { Block(S_a, <<S_x>>, <<S_y>>),
      Block(S_b, <<>>, <<S_x, <<" ", " ">> \o S_y>>),
      NoTerminator(S_c, <<S_x>>, <<S_y>>),
      NoSeparator(S_c, <<S_x>>),
      ChangeOnly(S_c),
      Line(call_syntax(READ_FILE, S_atxt)),
      Line(label_syntax(READ_FILE, S_atxt)),
      Line(call_syntax(EXECUTE_COMMAND, S_ls)),
      Line(S_ok),
      Line(FENCE_RUST) }

\* the bracket-wrapped form of a command
BRACKET_MARKER ==
    <<"c","o","d","e","{",DQUOTE,"c","o","m","m","a","n","d",DQUOTE,":",DQUOTE>>
bracket_syntax(arg) == BRACKET_MARKER \o arg \o <<DQUOTE, "}">>

S_xi == <<" ", " ">> \o S_x
S_yi == <<" ", " ">> \o S_y

\* responses with empty arguments, the bracket-wrapped form, a tool name that
\* is only mentioned, a CURRENT part of two lines, indented contents and a
\* block cut off whose content holds a call
EdgeItems ==
    { Line(call_syntax(READ_FILE, <<>>)),
      Line(label_syntax(READ_FILE, <<>>)),
      Line(READ_FILE \o <<"(", ")">>),
      Line(bracket_syntax(S_ls)),
      Line(EXECUTE_COMMAND \o <<"(">> \o bracket_syntax(S_ls) \o <<")">>),
      Line(READ_FILE \o <<" ">> \o S_atxt),
      Block(S_a, <<S_x, S_y>>, <<S_b>>),
      Block(S_c, <<S_xi>>, <<S_yi, S_x>>),
      NoTerminator(S_c, <<call_syntax(READ_FILE, S_atxt)>>, <<S_y>>) }

RECURSIVE item_lines(_)
item_lines(its) ==
    IF is_empty(its) THEN <<>> ELSE Head(its).lines \o item_lines(Tail(its))

\* the lines joined by "\n"
RECURSIVE join_lines(_)
join_lines(ls) ==
    IF is_empty(ls) THEN <<>>
    ELSE IF Len(ls) = 1 THEN ls[1]
    ELSE ls[1] \o <<NL>> \o join_lines(Tail(ls))

Render(its) == join_lines(item_lines(its))

SeqsUpTo(S, n) == UNION {[1..k -> S] : k \in 0..n}

-----------------------------------------------------------------------------
(* Time and 32-bit counters *)

SECS_60    == 60       \* Duration::from_secs(60)
MILLIS_100 == 100      \* Duration::from_millis(100)

from_secs(n)   == n * 1000
from_millis(n) == n

\* a u32 in two 16-bit halves, so that a counter close to 2^32 can be held
Base == 2 ^ 16
U32(hi, lo) == [hi |-> hi, lo |-> lo]
ZERO == U32(0, 0)

\* the sum of a and the number n, not reduced
plus(a, n) == [hi |-> a.hi + ((a.lo + n) \div Base), lo |-> (a.lo + n) % Base]

fits_u32(a) == a.hi < Base
wrapping(a) == [a EXCEPT !.hi = @ % Base]

-----------------------------------------------------------------------------
(* limiter.rs, tpm_limiter.rs, main.rs: TPMLimiter; llm.rs: RateLimiter *)

\* which is "limiter", "tpm_limiter", "main" or "llm"; overflow_checks is
\* whether the build panics on integer overflow (debug) or wraps (release)
TPMLimiter_new(which, max_tpm, min_interval_secs, overflow_checks) ==
    [which             |-> which,
     max_tpm           |-> max_tpm,
     min_interval      |-> from_secs(min_interval_secs),
     token_usage       |-> <<>>,
     last_request      |-> None,
     total_tokens_used |-> ZERO,
     overflow_checks   |-> overflow_checks,
     panicked          |-> FALSE]

\* while let Some(front) = front() { if front.time < cutoff { pop_front() } else { break } }
RECURSIVE pop_expired(_, _)
pop_expired(q, cutoff) ==
    IF q # <<>> /\ q[1].time < cutoff THEN pop_expired(Tail(q), cutoff) ELSE q

\* retain(|(time, _)| *time >= cutoff)
retain(q, cutoff) == SelectSeq(q, LAMBDA e : e.time >= cutoff)

RECURSIVE sum_tokens(_)
sum_tokens(q) == IF q = <<>> THEN 0 ELSE q[1].tokens + sum_tokens(Tail(q))

\* a variant that sums every stored entry, expired or not
get_current_tpm_unfiltered(l, now) == sum_tokens(l.token_usage)

\* the same in limiter.rs, tpm_limiter.rs, main.rs and llm.rs
get_current_tpm(l, now) ==
    sum_tokens(retain(l.token_usage, now - from_secs(SECS_60)))

\* total_tokens_used += tokens, on a u32
add_total(l, tokens) ==
    LET sum == plus(l.total_tokens_used, tokens)
    IN  IF fits_u32(sum) THEN [l EXCEPT !.total_tokens_used = sum]
        ELSE IF l.overflow_checks THEN [l EXCEPT !.panicked = TRUE]
        ELSE [l EXCEPT !.total_tokens_used = wrapping(sum)]

push_back(l, now, tokens) ==
    [l EXCEPT !.token_usage = Append(@, [time |-> now, tokens |-> tokens])]

clean_old(l, now) ==
    [l EXCEPT !.token_usage = pop_expired(@, now - from_secs(SECS_60))]

\* limiter.rs: TPMLimiter::add_token_usage
limiter_add_token_usage(l, now, tokens) ==
    clean_old(push_back(l, now, tokens), now)

\* tpm_limiter.rs: TPMLimiter::add_token_usage
tpm_add_token_usage(l, now, tokens) ==
    LET counted == add_total(push_back(l, now, tokens), tokens)
    IN  IF counted.panicked THEN counted
        ELSE clean_old([counted EXCEPT !.last_request = Some(now)], now)

\* main.rs: TPMLimiter::add_token_usage
main_add_token_usage(l, now, tokens) ==
    LET counted == add_total(push_back(l, now, tokens), tokens)
    IN  IF counted.panicked THEN counted ELSE clean_old(counted, now)

\* what a wait_if_needed did: the limiter after it, the two sleeps, the usage
\* it computed and the time at which it returned
Waited(l, interval_sleep, tpm_sleep, usage, returned) ==
    [lim |-> l, interval_sleep |-> interval_sleep, tpm_sleep |-> tpm_sleep,
     usage |-> usage, returned |-> returned]

\* a variant that sleeps for the time elapsed, not for what is left of the interval
interval_deficit_elapsed(l, now) ==
    IF l.last_request.some /\ now - l.last_request.val < l.min_interval
    THEN now - l.last_request.val
    ELSE 0

\* min_interval - elapsed, when the last request is younger than min_interval
interval_deficit(l, now) ==
    IF l.last_request.some /\ now - l.last_request.val < l.min_interval
    THEN l.min_interval - (now - l.last_request.val)
    ELSE 0

\* a variant that adds the age of the front entry to the 60 s
window_wait_added(l, now) ==
    IF l.token_usage # <<>> /\ now - l.token_usage[1].time < from_secs(SECS_60)
    THEN from_secs(SECS_60) + (now - l.token_usage[1].time) + from_millis(MILLIS_100)
    ELSE 0

\* 60 s - elapsed + 100 ms, when the front entry is younger than 60 s
window_wait(l, now) ==
    IF l.token_usage # <<>> /\ now - l.token_usage[1].time < from_secs(SECS_60)
    THEN from_secs(SECS_60) - (now - l.token_usage[1].time) + from_millis(MILLIS_100)
    ELSE 0

\* limiter.rs: TPMLimiter::wait_if_needed
limiter_wait_if_needed(l, now) ==
    LET d1    == interval_deficit(l, now)
        t1    == now + d1
        usage == get_current_tpm(l, t1)
        d2    == IF usage >= l.max_tpm THEN window_wait(l, t1) ELSE 0
    IN  Waited([l EXCEPT !.last_request = Some(now)], d1, d2, usage, t1 + d2)

\* tpm_limiter.rs: TPMLimiter::wait_if_needed
tpm_wait_if_needed(l, now) ==
    LET d1    == interval_deficit(l, now)
        t1    == now + d1
        usage == get_current_tpm(l, t1)
        d2    == IF usage >= l.max_tpm THEN from_secs(SECS_60) ELSE 0
    IN  Waited(l, d1, d2, usage, t1 + d2)

\* the loop of main.rs sleeps 100 ms at a time until wait_time has passed
in_steps(wait_time) ==
    ((wait_time + from_millis(MILLIS_100) - 1) \div from_millis(MILLIS_100))
        * from_millis(MILLIS_100)

\* main.rs: TPMLimiter::wait_if_needed
main_wait_if_needed(l, now) ==
    LET d1    == in_steps(interval_deficit(l, now))
        t1    == now + d1
        usage == get_current_tpm(l, t1)
        d2    == IF usage >= l.max_tpm THEN in_steps(window_wait(l, t1)) ELSE 0
    IN  Waited([l EXCEPT !.last_request = Some(now)], d1, d2, usage, t1 + d2)

\* llm.rs: RateLimiter::wait_if_needed, which also records the estimate
llm_wait_if_needed(l, now, estimated_tokens) ==
    LET cleaned == clean_old(l, now)
        usage   == sum_tokens(cleaned.token_usage)
        d2      == IF usage + estimated_tokens > l.max_tpm
                   THEN window_wait(cleaned, now) ELSE 0
        kept    == IF d2 > 0
                   THEN [cleaned EXCEPT !.token_usage =
                            retain(@, now + d2 - from_secs(SECS_60))]
                   ELSE cleaned
    IN  Waited(add_total(push_back(kept, now, estimated_tokens), estimated_tokens),
               0, d2, usage, now + d2)

\* a variant that puts the actual usage in the oldest entry
llm_replace_estimate_front(l, actual_tokens) ==
    IF l.token_usage = <<>> THEN l
    ELSE [l EXCEPT !.token_usage[1].tokens = actual_tokens]

\* llm.rs: chat_completions puts the actual usage in place of the estimate
llm_replace_estimate(l, actual_tokens) ==
    IF l.token_usage = <<>> THEN l
    ELSE [l EXCEPT !.token_usage[Len(l.token_usage)].tokens = actual_tokens]

\* the times between two calls and the token counts the limiter is driven with
Delays == {from_secs(1), from_secs(SECS_60)}
Tokens == {50, 60}

\* the same with a single usage that is by itself max_tokens_per_minute
Usages == Tokens \cup {MaxTpm}

\* one operation: what was called, when, and the limiter before and after it
Op(op, at, tokens, before, w) ==
    [op |-> op, at |-> at, tokens |-> tokens, before |-> before, after |-> w.lim,
     interval_sleep |-> w.interval_sleep, tpm_sleep |-> w.tpm_sleep,
     usage |-> w.usage, returned |-> w.returned]

\* the chat_completions calls that may run at once on one client, and where
\* a call is: it has not begun, its request is sent, it has put the actual
\* usage in the window, or it has returned an error
Callers == {1, 2}
NoCall  == [pc |-> "idle", at |-> 0, estimate |-> 0, actual |-> 0,
            before |-> <<>>, after |-> <<>>]
NoCalls == [c \in Callers |-> NoCall]

wait_if_needed(l, now) ==
    CASE l.which = "limiter"     -> limiter_wait_if_needed(l, now)
      [] l.which = "tpm_limiter" -> tpm_wait_if_needed(l, now)
      [] l.which = "main"        -> main_wait_if_needed(l, now)

add_token_usage(l, now, tokens) ==
    CASE l.which = "limiter"     -> limiter_add_token_usage(l, now, tokens)
      [] l.which = "tpm_limiter" -> tpm_add_token_usage(l, now, tokens)
      [] l.which = "main"        -> main_add_token_usage(l, now, tokens)

-----------------------------------------------------------------------------
(* Paths, file contents and tool calls the executors are driven with *)

P_atxt == S_atxt
P_lib  == <<"s","r","c","/","l","i","b",".","r","s">>
P_abs  == <<"/","e","t","c","/","p","a","s","s","w","d">>
P_up   == <<".",".","/","x">>

S_q    == <<"q">>
S_xyx  == <<"x","y","x">>
S_zz   == <<"z","z">>

PathSet == {P_atxt, P_lib, P_abs, P_up}

Locations == {path_join(project_root, p) : p \in PathSet}

L_atxt == path_join(project_root, P_atxt)
L_lib  == path_join(project_root, P_lib)
L_abs  == path_join(project_root, P_abs)
L_up   == path_join(project_root, P_up)

\* the directories of a filesystem that holds the files fl
dirs_of(fl) ==
    {SLASH, project_root}
    \cup UNION {ancestors(path_parent(l).val) : l \in {k \in DOMAIN fl : fl[k].exists}}

\* the text of a write_file_delta parameter
delta_text(path, old, new) == path \o DELTA_SEP \o old \o <<NL>> \o new

Call(tool, param) == [tool |-> tool, param |-> param]

DeltaPairs ==
    { <<S_x, S_zz>>, <<S_zz, S_x>>, <<<<>>, S_y>>,
      <<<<" ">> \o S_q, S_y \o <<" ">>>>, <<S_y, <<>>>> }

ExecCalls ==
    {Call("read_file", p) : p \in PathSet}
    \cup {Call("write_file_delta", delta_text(p, d[1], d[2])) :
              p \in PathSet, d \in DeltaPairs}
    \cup { Call("write_file_delta", P_atxt),
           Call("write_file_delta", P_atxt \o DELTA_SEP \o S_x),
           Call("write_file_delta", P_abs \o DELTA_SEP \o S_x),
           Call("execute_command", S_ls),
           Call("list_files", <<>>) }

\* one executed tool call: the call, the filesystem before and after, what it did
Entry(c, fl, ds, o, spawned) ==
    [tool |-> c.tool, param |-> c.param, spawned |-> spawned,
     before |-> fl, dirsBefore |-> ds,
     after |-> o.files, dirsAfter |-> o.dirs,
     log |-> o.log, applied |-> o.applied, kind |-> o.kind, body |-> o.body]

-----------------------------------------------------------------------------
(* The executors alone: tool calls are run one after the other *)

InitExec ==
    /\ items = <<>>
    /\ text = <<>>
    /\ tools = <<>>
    /\ parsedBy = "none"
    /\ impl \in {"executor", "app", "main"}
    /\ \E fa \in {NoFile, File(S_xyx), File(S_zz), Unreadable(S_q)}, fb \in {NoFile, File(S_x)} :
           files = [l \in Locations |->
                      IF l = L_atxt THEN fa
                      ELSE IF l = L_lib THEN fb
                      ELSE IF l = L_abs THEN File(S_x)
                      ELSE NoFile]
    /\ dirs = dirs_of(files)
    /\ trace = <<>>
    /\ pc = "prompt"
    /\ next = 1
    /\ results = <<>>
    /\ history = <<>>
    /\ turns = 0
    /\ clock = 0
    /\ lim = TPMLimiter_new("limiter", MaxTpm, MinIntervalSecs, FALSE)
    /\ ltrace = <<>>
    /\ calls = NoCalls

\* only execute_command starts a process, and only that can fail
Spawns(tool, spawned) == tool # "execute_command" => spawned

\* a panic has ended the process
Panicked == Len(trace) > 0 /\ trace[Len(trace)].kind = "Panic"

\* executor.rs: ToolExecutor::execute
ExecutorExecute ==
    /\ impl = "executor"
    /\ ~Panicked
    /\ Len(trace) < MaxCalls
    /\ \E c \in ExecCalls, spawned \in BOOLEAN :
           /\ Spawns(c.tool, spawned)
           /\ LET o == execute(files, dirs, c.tool, c.param, spawned)
              IN  /\ files' = o.files
                  /\ dirs' = o.dirs
                  /\ trace' = Append(trace, Entry(c, files, dirs, o, spawned))
    /\ UNCHANGED <<parseVars, impl, turnVars, limVars>>

\* app.rs: execute_tool
AppExecuteTool ==
    /\ impl = "app"
    /\ Len(trace) < MaxCalls
    /\ \E c \in ExecCalls, spawned \in BOOLEAN :
           /\ Spawns(c.tool, spawned)
           /\ LET o == app_execute_tool(files, dirs, c.tool, c.param, spawned)
              IN  /\ files' = o.files
                  /\ dirs' = o.dirs
                  /\ trace' = Append(trace, Entry(c, files, dirs, o, spawned))
    /\ UNCHANGED <<parseVars, impl, turnVars, limVars>>

\* main.rs: execute_tool
MainExecuteTool ==
    /\ impl = "main"
    /\ ~Panicked
    /\ Len(trace) < MaxCalls
    /\ \E c \in ExecCalls, spawned \in BOOLEAN :
           /\ Spawns(c.tool, spawned)
           /\ LET o == main_execute_tool(files, dirs, c.tool, c.param, spawned)
              IN  /\ files' = o.files
                  /\ dirs' = o.dirs
                  /\ trace' = Append(trace, Entry(c, files, dirs, o, spawned))
    /\ UNCHANGED <<parseVars, impl, turnVars, limVars>>

NextExec == ExecutorExecute \/ AppExecuteTool \/ MainExecuteTool

SpecExec == InitExec /\ [][NextExec]_vars

-----------------------------------------------------------------------------
(* The parser alone: a response text is drawn, one of the parsers reads it *)

InitParse ==
    /\ items \in SeqsUpTo(ItemSet, MaxItems) \cup SeqsUpTo(EdgeItems, MaxItems)
    /\ text = Render(items)
    /\ tools = <<>>
    /\ parsedBy = "none"
    /\ impl = "executor"
    /\ files = [l \in Locations |-> NoFile]
    /\ dirs = dirs_of(files)
    /\ trace = <<>>
    /\ pc = "prompt"
    /\ next = 1
    /\ results = <<>>
    /\ history = <<>>
    /\ turns = 0
    /\ clock = 0
    /\ lim = TPMLimiter_new("limiter", MaxTpm, MinIntervalSecs, FALSE)
    /\ ltrace = <<>>
    /\ calls = NoCalls

\* parser.rs: ResponseParser::extract_tools
ParserExtract ==
    /\ parsedBy = "none"
    /\ IF extract_tools_panics(text)
       THEN /\ tools' = <<>>
            /\ parsedBy' = "panic"
       ELSE /\ tools' = extract_tools(text)
            /\ parsedBy' = "parser"
    /\ UNCHANGED <<items, text, fsVars, turnVars, limVars>>

\* app.rs: extract_tools
AppExtract ==
    /\ parsedBy = "none"
    /\ tools' = app_extract_tools(text)
    /\ parsedBy' = "app"
    /\ UNCHANGED <<items, text, fsVars, turnVars, limVars>>

\* main.rs: extract_tools
MainExtract ==
    /\ parsedBy = "none"
    /\ tools' = main_extract_tools(text)
    /\ parsedBy' = "main"
    /\ UNCHANGED <<items, text, fsVars, turnVars, limVars>>

NextParse == ParserExtract \/ AppExtract \/ MainExtract

SpecParse == InitParse /\ [][NextParse]_vars

-----------------------------------------------------------------------------
(* chat.rs: ChatSession, one turn after the other *)

TOKEN_START   == <<"<","|","s","t","a","r","t","|",">","a","s","s","i","s","t","a","n","t",
                   "<","|","c","h","a","n","n","e","l","|",">">>
TOKEN_MESSAGE == <<"<","|","m","e","s","s","a","g","e","|",">">>
TOKEN_END     == <<"<","|","e","n","d","|",">">>

filter_response(t) ==
    trim(replace(replace(replace(t, TOKEN_START, <<>>), TOKEN_MESSAGE, <<>>),
                 TOKEN_END, <<>>))

OLD_FN == <<"p","u","b"," ","f","n"," ","o","l","d","(",")"," ","{","}">>
NEW_FN == <<"p","u","b"," ","f","n"," ","n","e","w","(",")"," ","{","}">>

\* the patch block of the system prompt's example
LibBlock == Block(P_lib, <<OLD_FN>>, <<NEW_FN>>)

\* the responses the completion service is taken to give
Responses ==
    { <<LibBlock>>,
      <<Line(FENCE_RUST), LibBlock, Line(FENCE \o TOKEN_END)>>,
      <<Block(P_atxt, <<S_x>>, <<S_zz>>), Block(P_lib, <<>>, <<S_y>>)>>,
      <<Block(P_atxt, <<S_zz>>, <<S_x>>)>>,
      <<Block(P_up, <<>>, <<S_y>>)>>,
      <<Line(label_syntax(READ_FILE, P_atxt)), Line(call_syntax(EXECUTE_COMMAND, S_ls))>>,
      <<Line(S_ok)>> }

\* the history earlier turns have left: none, or that of 13 turns with tool
\* calls (a user, an assistant and a system message each)
Histories ==
    { <<>>,
      [i \in 1..39 |-> IF i % 3 = 1 THEN "user"
                       ELSE IF i % 3 = 2 THEN "assistant" ELSE "system"] }

InitTurn ==
    /\ items = <<>>
    /\ text = <<>>
    /\ tools = <<>>
    /\ parsedBy = "none"
    /\ impl = "executor"
    /\ \E fa \in {NoFile, File(S_xyx)}, fb \in {NoFile, File(OLD_FN), File(S_x)} :
           files = [l \in Locations |->
                      IF l = L_atxt THEN fa
                      ELSE IF l = L_lib THEN fb
                      ELSE IF l = L_abs THEN File(S_x)
                      ELSE NoFile]
    /\ dirs = dirs_of(files)
    /\ trace = <<>>
    /\ pc = "prompt"
    /\ next = 1
    /\ results = <<>>
    /\ history \in Histories
    /\ turns = 0
    /\ clock = 0
    /\ lim = TPMLimiter_new("limiter", MaxTpm, MinIntervalSecs, FALSE)
    /\ ltrace = <<>>
    /\ calls = NoCalls

\* run: a line of input is pushed as the user's message, process_turn begins
UserInput ==
    /\ pc = "prompt"
    /\ turns < MaxTurns
    /\ turns' = turns + 1
    /\ history' = Append(history, "user")
    /\ pc' = "generate"
    /\ UNCHANGED <<parseVars, fsVars, next, results, limVars>>

\* process_turn: limiter.wait_if_needed, a second after the last call returned
Admitted == limiter_wait_if_needed(lim, clock + from_secs(1))

\* process_turn: the limiter is waited for, client.generate answers a second
\* later, the response is filtered and the tokens of the turn are recorded
Generate ==
    /\ pc = "generate"
    /\ \E r \in Responses :
           /\ items' = r
           /\ text' = filter_response(Render(r))
    /\ \E tokens \in Tokens :
           LET w   == Admitted
               now == w.returned + from_secs(1)
               l   == limiter_add_token_usage(w.lim, now, tokens)
           IN  /\ lim' = l
               /\ clock' = now
               /\ ltrace' = ltrace \o
                      <<Op("admit", clock + from_secs(1), 0, lim, w),
                        Op("record", now, tokens, w.lim, Waited(l, 0, 0, 0, now))>>
    /\ tools' = <<>>
    /\ parsedBy' = "none"
    /\ pc' = "parse"
    /\ UNCHANGED <<fsVars, next, results, history, turns, calls>>

\* process_turn: the limiter is waited for, client.generate fails, the turn
\* ends with the error
GenerateFails ==
    /\ pc = "generate"
    /\ lim' = Admitted.lim
    /\ clock' = Admitted.returned
    /\ ltrace' = Append(ltrace, Op("admit", clock + from_secs(1), 0, lim, Admitted))
    /\ pc' = "prompt"
    /\ UNCHANGED <<parseVars, fsVars, next, results, history, turns, calls>>

\* process_turn: parser.extract_tools; a response without tools ends the turn
Parse ==
    /\ pc = "parse"
    /\ tools' = extract_tools(text)
    /\ parsedBy' = "parser"
    /\ next' = 1
    /\ results' = <<>>
    /\ IF is_empty(tools')
       THEN /\ history' = Append(history, "assistant")
            /\ pc' = "prompt"
       ELSE /\ history' = history
            /\ pc' = "execute"
    /\ UNCHANGED <<items, text, fsVars, turns, limVars>>

\* a variant that leaves the loop after the first tool call
after_tool_first(i, n) == "update"

\* the loop goes on to the next tool call, and past the last to the history
after_tool(i, n) == IF i = n THEN "update" ELSE "execute"

\* a variant that takes the tool calls from the last to the first
nth_tool_reversed(ts, i) == ts[Len(ts) + 1 - i]

\* for (tool_name, param) in &tools: the call of the i-th iteration
nth_tool(ts, i) == ts[i]

\* process_turn: executor.execute of the next tool call, its result pushed
ExecuteTool ==
    /\ pc = "execute"
    /\ next <= Len(tools)
    /\ \E spawned \in BOOLEAN :
           /\ Spawns(nth_tool(tools, next)[1], spawned)
           /\ LET c == Call(nth_tool(tools, next)[1], nth_tool(tools, next)[2])
                  o == execute(files, dirs, c.tool, c.param, spawned)
              IN  /\ files' = o.files
                  /\ dirs' = o.dirs
                  /\ trace' = Append(trace, Entry(c, files, dirs, o, spawned))
                  /\ results' = IF o.kind = "Panic" THEN results
                                ELSE Append(results, <<c.tool, o.kind, o.body>>)
                  /\ pc' = IF o.kind = "Panic" THEN "aborted"
                           ELSE after_tool(next, Len(tools))
    /\ next' = next + 1
    /\ UNCHANGED <<parseVars, impl, history, turns, limVars>>

\* history.drain(0..20) once more than 40 messages are held
drain_history(h) == IF Len(h) > 40 THEN Tail_(h, 21) ELSE h

\* process_turn: the response and the tool results are pushed to the history
UpdateHistory ==
    /\ pc = "update"
    /\ history' = drain_history(history \o <<"assistant", "system">>)
    /\ pc' = "prompt"
    /\ UNCHANGED <<parseVars, fsVars, next, results, turns, limVars>>

NextTurn ==
    \/ UserInput
    \/ Generate
    \/ GenerateFails
    \/ Parse
    \/ ExecuteTool
    \/ UpdateHistory

SpecTurn == InitTurn /\ [][NextTurn]_vars

-----------------------------------------------------------------------------
(* The limiter alone: operations at times that grow *)

\* the counter of a session that has used 2^32 - 100 tokens so far
NearFull == U32(Base - 1, Base - 100)

\* the time of that session's last record, 61 s before the clock starts
Earlier == 0 - from_secs(SECS_60) - from_secs(1)

\* the limiter such a session has left: add_token_usage and wait_if_needed of
\* llm.rs leave the entry they pushed in the window, tpm_limiter.rs sets
\* last_request as it records, main.rs has admitted the request it records
Resumed(l) ==
    [l EXCEPT !.token_usage = <<[time |-> Earlier, tokens |-> 50]>>,
              !.total_tokens_used = NearFull,
              !.last_request = IF l.which = "llm" THEN None ELSE Some(Earlier)]

InitLimit ==
    /\ items = <<>>
    /\ text = <<>>
    /\ tools = <<>>
    /\ parsedBy = "none"
    /\ impl = "executor"
    /\ files = [l \in Locations |-> NoFile]
    /\ dirs = dirs_of(files)
    /\ trace = <<>>
    /\ pc = "prompt"
    /\ next = 1
    /\ results = <<>>
    /\ history = <<>>
    /\ turns = 0
    /\ clock = 0
    /\ \E which \in {"limiter", "tpm_limiter", "main", "llm"},
          overflow_checks \in BOOLEAN, resumed \in BOOLEAN :
           LET l == TPMLimiter_new(which, MaxTpm, MinIntervalSecs, overflow_checks)
           IN  /\ which = "limiter" => ~resumed
               /\ ~resumed => ~overflow_checks
               /\ lim = IF resumed THEN Resumed(l) ELSE l
    /\ ltrace = <<>>
    /\ calls = NoCalls

Running == ~lim.panicked /\ Len(ltrace) < MaxOps

\* admit: wait_if_needed of the three TPMLimiter
WaitIfNeeded ==
    /\ Running
    /\ lim.which # "llm"
    /\ \E d \in Delays :
           LET now == clock + d
               w   == wait_if_needed(lim, now)
           IN  /\ lim' = w.lim
               /\ clock' = w.returned
               /\ ltrace' = Append(ltrace, Op("admit", now, 0, lim, w))
    /\ UNCHANGED <<parseVars, fsVars, turnVars, calls>>

\* record_usage: add_token_usage of the three TPMLimiter
AddTokenUsage ==
    /\ Running
    /\ lim.which # "llm"
    /\ \E d \in Delays, tokens \in Usages :
           LET now == clock + d
               l   == add_token_usage(lim, now, tokens)
           IN  /\ lim' = l
               /\ clock' = now
               /\ ltrace' = Append(ltrace,
                      Op("record", now, tokens, lim, Waited(l, 0, 0, 0, now)))
    /\ UNCHANGED <<parseVars, fsVars, turnVars, calls>>

\* admit and record_usage in one: wait_if_needed of RateLimiter
LlmWaitIfNeeded ==
    /\ Running
    /\ lim.which = "llm"
    /\ \E d \in Delays, tokens \in Usages :
           LET now == clock + d
               w   == llm_wait_if_needed(lim, now, tokens)
           IN  /\ lim' = w.lim
               /\ clock' = w.returned
               /\ ltrace' = Append(ltrace, Op("admit_record", now, tokens, lim, w))
    /\ UNCHANGED <<parseVars, fsVars, turnVars, calls>>

\* chat_completions: the response's usage replaces the estimate
LlmReplaceEstimate ==
    /\ Running
    /\ lim.which = "llm"
    /\ ltrace # <<>> /\ ltrace[Len(ltrace)].op = "admit_record"
    /\ \E tokens \in Usages :
           LET l == llm_replace_estimate(lim, tokens)
           IN  /\ lim' = l
               /\ ltrace' = Append(ltrace,
                      Op("actual", clock, tokens, lim, Waited(l, 0, 0, 0, clock)))
    /\ UNCHANGED <<parseVars, fsVars, turnVars, clock, calls>>

\* current_usage: get_current_tpm, which reads and changes nothing; it is
\* private in limiter.rs, where only wait_if_needed calls it
GetCurrentTpm ==
    /\ Running
    /\ lim.which # "limiter"
    /\ \E d \in Delays :
           LET now == clock + d
           IN  /\ clock' = now
               /\ ltrace' = Append(ltrace,
                      Op("usage", now, 0, lim,
                         Waited(lim, 0, 0, get_current_tpm(lim, now), now)))
    /\ UNCHANGED <<parseVars, fsVars, turnVars, lim, calls>>

NextLimit ==
    \/ WaitIfNeeded
    \/ AddTokenUsage
    \/ LlmWaitIfNeeded
    \/ LlmReplaceEstimate
    \/ GetCurrentTpm

SpecLimit == InitLimit /\ [][NextLimit]_vars

-----------------------------------------------------------------------------
(* llm.rs: chat_completions calls that run at once on one client *)

InitClient ==
    /\ items = <<>>
    /\ text = <<>>
    /\ tools = <<>>
    /\ parsedBy = "none"
    /\ impl = "executor"
    /\ files = [l \in Locations |-> NoFile]
    /\ dirs = dirs_of(files)
    /\ trace = <<>>
    /\ pc = "prompt"
    /\ next = 1
    /\ results = <<>>
    /\ history = <<>>
    /\ turns = 0
    /\ clock = 0
    /\ \E overflow_checks \in BOOLEAN :
           lim = TPMLimiter_new("llm", MaxTpm, MinIntervalSecs, overflow_checks)
    /\ ltrace = <<>>
    /\ calls = NoCalls

\* chat_completions estimates the tokens of the request and awaits
\* wait_if_needed, which holds the lock on the window until it has appended
\* the estimate; then the request is sent
ChatWait(c) ==
    /\ Running
    /\ calls[c].pc # "sent"
    /\ \E d \in Delays, tokens \in Tokens :
           LET now == clock + d
               w   == llm_wait_if_needed(lim, now, tokens)
           IN  /\ lim' = w.lim
               /\ clock' = w.returned
               /\ ltrace' = Append(ltrace, Op("admit_record", now, tokens, lim, w))
               /\ calls' = [calls EXCEPT ![c] =
                      [NoCall EXCEPT !.pc = "sent", !.at = now, !.estimate = tokens]]
    /\ UNCHANGED <<parseVars, fsVars, turnVars>>

\* the request fails or the service answers with an error: chat_completions
\* returns the error and leaves the window as it is
ChatFails(c) ==
    /\ Running
    /\ calls[c].pc = "sent"
    /\ calls' = [calls EXCEPT ![c].pc = "failed"]
    /\ UNCHANGED <<parseVars, fsVars, turnVars, clock, lim, ltrace>>

\* the response has come: chat_completions locks the window and puts the
\* actual usage in its back entry
ChatReplace(c) ==
    /\ Running
    /\ calls[c].pc = "sent"
    /\ \E tokens \in Tokens :
           LET l == llm_replace_estimate(lim, tokens)
           IN  /\ lim' = l
               /\ ltrace' = Append(ltrace,
                      Op("actual", clock, tokens, lim, Waited(l, 0, 0, 0, clock)))
               /\ calls' = [calls EXCEPT ![c].pc = "done",
                                         ![c].actual = tokens,
                                         ![c].before = lim.token_usage,
                                         ![c].after = l.token_usage]
    /\ UNCHANGED <<parseVars, fsVars, turnVars, clock>>

NextClient ==
    \/ \E c \in Callers : ChatWait(c)
    \/ \E c \in Callers : ChatFails(c)
    \/ \E c \in Callers : ChatReplace(c)

SpecClient == InitClient /\ [][NextClient]_vars

-----------------------------------------------------------------------------
(* Terms the properties are stated in *)

\* the components of a path, split at "/"
RECURSIVE components(_)
components(p) ==
    LET i == find(p, SLASH)
    IN  IF i = 0 THEN <<p>> ELSE <<SubSeq(p, 1, i - 1)>> \o components(Tail_(p, i + 1))

HasParentComponent(p) == \E k \in 1..Len(components(p)) : components(p)[k] = DOTDOT

\* an absolute path, or one with a ".." component
Unsafe(p) == (~is_empty(p) /\ p[1] = "/") \/ HasParentComponent(p)

HasSeparator(param) ==
    \E i \in 1..Len(param) - 2 : SubSeq(param, i, i + 2) = DELTA_SEP

\* the path a tool call names: the text before the first ":::" of a delta
PathBeforeSeparator(param) ==
    LET i == MinOf({j \in 1..Len(param) - 2 : SubSeq(param, j, j + 2) = DELTA_SEP})
    IN  SubSeq(param, 1, i - 1)

NamesPath(e) ==
    \/ e.tool = "read_file"
    \/ e.tool = "write_file_delta" /\ HasSeparator(e.param)

PathNamed(e) ==
    IF e.tool = "read_file" THEN e.param ELSE PathBeforeSeparator(e.param)

OccursAt(s, o, p) == p + Len(o) - 1 <= Len(s) /\ SubSeq(s, p, p + Len(o) - 1) = o
Occurs(s, o) == \E p \in 1..Len(s) : OccursAt(s, o, p)
FirstOccurrence(s, o) ==
    CHOOSE p \in 1..Len(s) : OccursAt(s, o, p) /\ \A q \in 1..(p - 1) : ~OccursAt(s, o, q)

Entries == {trace[k] : k \in 1..Len(trace)}
Deltas  == {e \in Entries : e.applied.called}

OthersUntouched(e) ==
    \A l \in Locations : l # e.applied.at => e.after[l] = e.before[l]

-----------------------------------------------------------------------------
(* C1 *)

\* C1: every read_file or write_file_delta call whose path is absolute or has
\* a ".." component returns the unsafe-path error and touches no file or directory
C1_UnsafePathRejected ==
    \A e \in Entries :
        (NamesPath(e) /\ Unsafe(PathNamed(e)))
            => /\ e.kind = "UnsafePath"
               /\ e.log = <<>>
               /\ e.after = e.before
               /\ e.dirsAfter = e.dirsBefore

\* the same of ToolExecutor::execute alone
C1_ExecutorRejects == impl = "executor" => C1_UnsafePathRejected

-----------------------------------------------------------------------------
(* C2 - C4: the parser *)

BlockItems(its) == SelectSeq(its, LAMBDA it : it.kind = "block")

\* complete patch blocks, at least one, and around them only lines that are
\* neither CHANGE: lines nor markers
WellFormedBlocks(its) ==
    /\ \E k \in 1..Len(its) : its[k].kind = "block"
    /\ \A k \in 1..Len(its) : its[k].kind \in {"block", "line"}

\* the call a complete block stands for: its path and its two contents, joined
\* line by line and trimmed
BlockCall(it) ==
    <<"write_file_delta",
      delta_text(it.path, trim(join_lines(it.current)), trim(join_lines(it.new)))>>

BlockCalls(its) == [k \in 1..Len(BlockItems(its)) |-> BlockCall(BlockItems(its)[k])]

IsChangeLine(l) == starts_with(trim(l), CHANGE_PREFIX)
IsTerminator(l) == starts_with(trim(l), MARK_NEW)
ChangePath(l)   == trim(Tail_(trim(l), Len(CHANGE_PREFIX) + 1))

\* line i of ls is a CHANGE: line with no >>>>>>> NEW line after it
Unterminated(ls, i) ==
    /\ IsChangeLine(ls[i])
    /\ \A j \in (i + 1)..Len(ls) : ~IsTerminator(ls[j])

\* no terminated block of ls names the path of line i
OnlyUnterminated(ls, i) ==
    \A j \in 1..Len(ls) :
        (IsChangeLine(ls[j]) /\ ChangePath(ls[j]) = ChangePath(ls[i]))
            => Unterminated(ls, j)

DeltaCallFor(path) ==
    \E k \in 1..Len(tools) :
        /\ tools[k][1] = "write_file_delta"
        /\ HasSeparator(tools[k][2])
        /\ PathBeforeSeparator(tools[k][2]) = path

NoCallForUnterminated ==
    LET ls == lines(text)
    IN  \A i \in 1..Len(ls) :
            (Unterminated(ls, i) /\ OnlyUnterminated(ls, i))
                => ~DeltaCallFor(ChangePath(ls[i]))

\* C3: a CHANGE: line that no >>>>>>> NEW line follows yields no
\* write_file_delta call, whichever parser reads the text
C3_NoCallWithoutTerminator == parsedBy # "none" => NoCallForUnterminated

\* the same of ResponseParser::extract_tools alone
C3_ParserNoCallWithoutTerminator == parsedBy = "parser" => NoCallForUnterminated

\* the same of main.rs extract_tools alone
C3_MainNoCallWithoutTerminator == parsedBy = "main" => NoCallForUnterminated

\* C4: the parser's result holds no two equal (name, parameter) pairs
C4_NoDuplicateCalls ==
    parsedBy # "none"
        => \A i, j \in 1..Len(tools) : i < j => tools[i] # tools[j]

\* the same of app.rs and main.rs extract_tools alone
C4_AppNoDuplicateCalls ==
    parsedBy \in {"app", "main"}
        => \A i, j \in 1..Len(tools) : i < j => tools[i] # tools[j]

-----------------------------------------------------------------------------
(* C5 - C9: apply_delta *)

\* C5: the file exists and non-empty old_content occurs in it: the first
\* occurrence, and only it, is replaced by new_content, and the result is Patched
C5_FirstOccurrenceReplaced ==
    \A e \in Deltas :
        LET was == e.before[e.applied.at]
            old == e.applied.old
        IN  (read_ok(was) /\ ~is_empty(old) /\ Occurs(was.content, old))
                => LET p == FirstOccurrence(was.content, old)
                   IN  /\ e.kind = "Applied"
                       /\ e.after[e.applied.at] =
                              File(SubSeq(was.content, 1, p - 1) \o e.applied.new
                                   \o SubSeq(was.content, p + Len(old), Len(was.content)))

C5_Witness ==
    \E e \in Deltas :
        /\ e.before[e.applied.at] = File(S_xyx)
        /\ e.applied.old = S_x
        /\ e.kind = "Applied"
        /\ e.after[e.applied.at] = File(S_zz \o <<"y", "x">>)

\* C6: the file exists and non-empty old_content does not occur in it: the
\* result is not-found and nothing is written
C6_NotFoundLeavesFile ==
    \A e \in Deltas :
        LET was == e.before[e.applied.at]
        IN  (read_ok(was) /\ ~is_empty(e.applied.old) /\ ~Occurs(was.content, e.applied.old))
                => /\ e.kind = "NotFound"
                   /\ e.after = e.before
                   /\ \A k \in 1..Len(e.log) : e.log[k].op # "write"

C6_Witness ==
    \E e \in Deltas :
        /\ e.before[e.applied.at] = File(S_xyx)
        /\ e.applied.old = S_q
        /\ e.kind = "NotFound"

\* C7: the file does not exist: its parent directories exist afterwards, the
\* file holds new_content as given, the result is Created, whatever old_content
C7_MissingFileCreated ==
    \A e \in Deltas :
        ~e.before[e.applied.at].exists
            => /\ e.kind = "Created"
               /\ e.after[e.applied.at] = File(e.applied.new)
               /\ ancestors(path_parent(e.applied.at).val) \subseteq e.dirsAfter

C7_Witness ==
    \E e \in Deltas :
        /\ e.applied.at = L_lib
        /\ ~e.before[L_lib].exists
        /\ path_parent(L_lib).val \notin e.dirsBefore
        /\ ~is_empty(e.applied.old)
        /\ e.kind = "Created"
        /\ path_parent(L_lib).val \in e.dirsAfter

\* C8: the file exists and old_content is empty: the file holds exactly
\* new_content afterwards and the result is Replaced
C8_EmptyOldReplacesFile ==
    \A e \in Deltas :
        (read_ok(e.before[e.applied.at]) /\ is_empty(e.applied.old))
            => /\ e.kind = "Replaced"
               /\ e.after[e.applied.at] = File(e.applied.new)

C8_Witness ==
    \E e \in Deltas :
        /\ e.before[e.applied.at] = File(S_xyx)
        /\ is_empty(e.applied.old)
        /\ e.kind = "Replaced"
        /\ e.after[e.applied.at] = File(S_y)

\* an apply that created a file with content c, followed at once by an apply
\* to the same file whose old_content is c
CreatedThenPatched(k) ==
    /\ k + 1 <= Len(trace)
    /\ trace[k].applied.called
    /\ trace[k].kind = "Created"
    /\ trace[k + 1].applied.called
    /\ trace[k + 1].applied.at = trace[k].applied.at
    /\ trace[k + 1].applied.old = trace[k].applied.new

\* C9 as stated: the second apply returns Patched and leaves the file equal to
\* its new content
C9_RoundTripPatched ==
    \A k \in 1..Len(trace) :
        CreatedThenPatched(k)
            => /\ trace[k + 1].kind = "Applied"
               /\ trace[k + 1].after[trace[k + 1].applied.at]
                      = File(trace[k + 1].applied.new)

\* C9 amended: the second apply leaves the file equal to its new content; it
\* returns Patched when c is not empty, and Replaced when c is empty
C9_RoundTrip ==
    \A k \in 1..Len(trace) :
        CreatedThenPatched(k)
            => /\ trace[k + 1].kind =
                      IF is_empty(trace[k].applied.new) THEN "Replaced" ELSE "Applied"
               /\ trace[k + 1].after[trace[k + 1].applied.at]
                      = File(trace[k + 1].applied.new)

C9_Witness ==
    \E k \in 1..Len(trace) :
        /\ CreatedThenPatched(k)
        /\ trace[k].applied.new = S_x
        /\ trace[k + 1].applied.new = S_zz
        /\ trace[k + 1].kind = "Applied"
        /\ files[trace[k].applied.at] = File(S_zz)

-----------------------------------------------------------------------------
(* C10: from the response to the file *)

\* the response that holds the patch block for src/lib.rs, bare and fenced
LibResponses ==
    { filter_response(Render(<<LibBlock>>)),
      filter_response(Render(<<Line(FENCE_RUST), LibBlock, Line(FENCE \o TOKEN_END)>>)) }

\* C10: the response with the block for src/lib.rs (CURRENT pub fn old() {},
\* NEW pub fn new() {}), parsed and executed where src/lib.rs holds
\* pub fn old() {}, is one call, is Patched, and leaves exactly pub fn new() {}
C10_EndToEnd ==
    (/\ pc = "update"
     /\ text \in LibResponses
     /\ trace[Len(trace)].before[L_lib] = File(OLD_FN))
        => /\ Len(tools) = 1
           /\ tools[1][1] = "write_file_delta"
           /\ results = <<<<"write_file_delta", "Applied", L_lib>>>>
           /\ files[L_lib] = File(NEW_FN)

C10_Witness ==
    /\ pc = "update"
    /\ text = Render(<<LibBlock>>)
    /\ trace[Len(trace)].before[L_lib] = File(OLD_FN)
    /\ trace[Len(trace)].kind = "Applied"
    /\ files[L_lib] = File(NEW_FN)

-----------------------------------------------------------------------------
(* C11, C12: the executor's error handling *)

SpawnFailures == {e \in Entries : e.tool = "execute_command" /\ ~e.spawned}

\* C11: an execute_command call whose shell process cannot be spawned returns
\* an error string; the executor does not panic
C11_SpawnFailureReported ==
    \A e \in SpawnFailures : e.kind = "ErrorExecuting"

\* the same of app.rs execute_tool alone
C11_AppSpawnFailureReported == impl = "app" => C11_SpawnFailureReported

\* the text after the first ":::" of a delta parameter
AfterSeparator(param) ==
    SubSeq(param, Len(PathBeforeSeparator(param)) + Len(DELTA_SEP) + 1, Len(param))

HasNewline(s) == \E i \in 1..Len(s) : s[i] = NL

FirstNewline(s) == MinOf({i \in 1..Len(s) : s[i] = NL})

\* the text up to the first newline, and the text after it
UpToNewline(s)  == SubSeq(s, 1, FirstNewline(s) - 1)
AfterNewline(s) == SubSeq(s, FirstNewline(s) + 1, Len(s))

ExecutorDeltas ==
    IF impl = "executor" THEN {e \in Entries : e.tool = "write_file_delta"} ELSE {}

\* a parameter without ":::", or without a newline after it, is rejected with
\* an error and nothing is read, written or created
MalformedRejected ==
    \A e \in ExecutorDeltas :
        /\ ~HasSeparator(e.param)
               => /\ e.kind = "InvalidDeltaFormat"
                  /\ e.log = <<>>
                  /\ e.after = e.before
                  /\ e.dirsAfter = e.dirsBefore
        /\ (HasSeparator(e.param) /\ ~HasNewline(AfterSeparator(e.param)))
               => /\ e.kind \in {"InvalidDeltaContent", "UnsafePath"}
                  /\ e.log = <<>>
                  /\ e.after = e.before
                  /\ e.dirsAfter = e.dirsBefore

WellFormedDelta(e) ==
    /\ HasSeparator(e.param)
    /\ HasNewline(AfterSeparator(e.param))
    /\ ~Unsafe(PathBeforeSeparator(e.param))

-----------------------------------------------------------------------------
(* C13 - C20: the limiter *)

Ops    == {ltrace[k] : k \in 1..Len(ltrace)}
Admits == {e \in Ops : e.op = "admit"}

WINDOW == from_secs(SECS_60)
MARGIN == from_millis(MILLIS_100)

\* the tokens of the entries of q that are at most 60 s old at time now
InWindow(q, now) == SelectSeq(q, LAMBDA r : now - r.time <= WINDOW)

\* the time at which an admit has served the interval and looks at the window
WindowCheck(e) == e.at + e.interval_sleep

\* the window is over budget and its oldest entry is younger than 60 s
OverBudget(l, now) ==
    /\ sum_tokens(InWindow(l.token_usage, now)) >= l.max_tpm
    /\ l.token_usage # <<>>
    /\ now - l.token_usage[1].time < WINDOW

\* C13: an admit that finds the window at or over max_tokens_per_minute, its
\* oldest entry younger than 60 s, blocks for 60 s minus that age plus 100 ms
C13_WindowWait ==
    \A e \in Admits :
        OverBudget(e.before, WindowCheck(e))
            => /\ e.tpm_sleep > 0
               /\ e.tpm_sleep =
                      WINDOW - (WindowCheck(e) - e.before.token_usage[1].time) + MARGIN

\* the same of limiter.rs and main.rs alone
C13_LimiterWindowWait == lim.which \in {"limiter", "main"} => C13_WindowWait

\* the window the session began with
StartWindow == IF ltrace = <<>> THEN lim.token_usage ELSE ltrace[1].before.token_usage

\* the entries recorded by the first k operations, with their times
RECURSIVE Recorded(_)
Recorded(k) ==
    IF k = 0 THEN StartWindow
    ELSE LET e == ltrace[k]
             r == Recorded(k - 1)
         IN  IF e.op \in {"record", "admit_record"}
             THEN Append(r, [time |-> e.at, tokens |-> e.tokens])
             ELSE IF e.op = "actual" /\ r # <<>>
             THEN [r EXCEPT ![Len(r)].tokens = e.tokens]
             ELSE r

\* C14: the usage reported at time now is the sum of the tokens of the entries
\* recorded in the 60 seconds up to now, whether get_current_tpm is called by
\* itself or by wait_if_needed after the interval is served
C14_CurrentUsage ==
    \A k \in 1..Len(ltrace) :
        LET e == ltrace[k]
        IN  /\ e.op = "usage"
                   => e.usage = sum_tokens(InWindow(Recorded(k - 1), e.at))
            /\ e.op \in {"admit", "admit_record"}
                   => e.usage = sum_tokens(InWindow(Recorded(k - 1), WindowCheck(e)))

C14_Witness ==
    /\ Len(ltrace) = 3
    /\ ltrace[1].op = "record" /\ ltrace[1].tokens = 60
    /\ ltrace[2].op = "record" /\ ltrace[2].tokens = 50
    /\ ltrace[2].at = ltrace[1].at + from_secs(1)
    /\ ltrace[3].op = "usage"
    /\ ltrace[3].at = ltrace[1].at + from_secs(61)
    /\ ltrace[3].usage = 50

\* the admits of limiter.rs and main.rs
LimiterAdmits == IF lim.which \in {"limiter", "main"} THEN Admits ELSE {}

\* C15: an admit that comes less than min_interval after the recorded last
\* request blocks for at least what is left of the interval; an admit with no
\* last request recorded, as the first of a session, owes no interval wait
C15_IntervalDeficit ==
    /\ \A e \in LimiterAdmits :
           LET last == e.before.last_request
           IN  /\ (last.some /\ e.at - last.val < e.before.min_interval)
                      => /\ e.interval_sleep >= e.before.min_interval - (e.at - last.val)
                         /\ e.returned - e.at >= e.before.min_interval - (e.at - last.val)
               /\ ~last.some => e.interval_sleep = 0
    /\ \A k \in 1..Len(ltrace) :
           (/\ lim.which \in {"limiter", "main"}
            /\ ltrace[k].op = "admit"
            /\ \A j \in 1..(k - 1) : ltrace[j].op # "admit")
               => ltrace[k].interval_sleep = 0

C15_Witness ==
    \E j, k \in 1..Len(ltrace) :
        /\ lim.which = "limiter"
        /\ j < k
        /\ ltrace[j].op = "admit" /\ ltrace[j].interval_sleep = 0
        /\ ltrace[j].before.last_request = None
        /\ ltrace[k].op = "admit"
        /\ ltrace[k].before.last_request = Some(ltrace[j].at)
        /\ ltrace[k].at - ltrace[j].at = from_secs(1)
        /\ ltrace[k].interval_sleep = from_secs(MinIntervalSecs) - from_secs(1)

\* the operations of the three TPMLimiter
LimiterOps == IF lim.which = "llm" THEN {} ELSE Ops

\* C16: every admit sets last_request to the time of the call, whether or not
\* it waited; no other operation changes last_request
C16_LastRequestSetByAdmit ==
    \A e \in LimiterOps :
        IF e.op = "admit"
        THEN e.after.last_request = Some(e.at)
        ELSE e.after.last_request = e.before.last_request

\* the same of limiter.rs and main.rs alone
C16_LimiterLastRequest == lim.which \in {"limiter", "main"} => C16_LastRequestSetByAdmit

\* the window wait an admit at time now owes when it serves no interval first
WindowWaitAt(l, now) ==
    IF OverBudget(l, now)
    THEN WINDOW - (now - l.token_usage[1].time) + MARGIN
    ELSE 0

\* C17: an admit blocks for the larger of the interval deficit and the window
\* wait, not for their sum
C17_LargerOfTheWaits ==
    \A e \in LimiterOps :
        e.op = "admit"
            => e.returned - e.at =
                   MaxOf({interval_deficit(e.before, e.at), WindowWaitAt(e.before, e.at)})

\* the same of limiter.rs and main.rs alone
C17_LimiterLargerOfTheWaits ==
    lim.which \in {"limiter", "main"} => C17_LargerOfTheWaits

\* the limiters that keep a lifetime counter
Counting == lim.which \in {"tpm_limiter", "main", "llm"}

\* the counter the session began with
StartTotal == IF ltrace = <<>> THEN lim.total_tokens_used
              ELSE ltrace[1].before.total_tokens_used

\* the tokens passed to record_usage by the first k operations
RECURSIVE Passed(_)
Passed(k) ==
    IF k = 0 THEN 0
    ELSE Passed(k - 1)
         + (IF ltrace[k].op \in {"record", "admit_record"} THEN ltrace[k].tokens ELSE 0)

less(a, b) == a.hi < b.hi \/ (a.hi = b.hi /\ a.lo < b.lo)

\* C18: the lifetime counter is the sum of all tokens ever passed to
\* record_usage, and never decreases
C18_LifetimeIsSum ==
    Counting =>
        \A k \in 1..Len(ltrace) :
            ~ltrace[k].after.panicked
                => /\ ltrace[k].after.total_tokens_used = plus(StartTotal, Passed(k))
                   /\ ~less(ltrace[k].after.total_tokens_used,
                            ltrace[k].before.total_tokens_used)

\* the same while the sum is below 2^32
C18_LifetimeIsSumBelowLimit ==
    Counting =>
        \A k \in 1..Len(ltrace) :
            (~ltrace[k].after.panicked /\ fits_u32(plus(StartTotal, Passed(k))))
                => /\ ltrace[k].after.total_tokens_used = plus(StartTotal, Passed(k))
                   /\ ~less(ltrace[k].after.total_tokens_used,
                            ltrace[k].before.total_tokens_used)

\* C19: recording usages whose sum exceeds 2^32 - 1 neither wraps the lifetime
\* counter to a smaller value nor aborts the program
C19_NoWrapNoAbort ==
    Counting =>
        \A e \in Ops :
            /\ ~e.after.panicked
            /\ ~less(e.after.total_tokens_used, e.before.total_tokens_used)

\* C20: after a read or a write at time now no entry older than 60 s is stored,
\* and a reported usage is the sum of the stored entries
C20_WindowHoldsUsage ==
    \A e \in LimiterOps :
        ~e.after.panicked
            => /\ \A i \in 1..Len(e.after.token_usage) :
                      e.returned - e.after.token_usage[i].time <= WINDOW
               /\ e.op = "usage" => e.usage = sum_tokens(e.after.token_usage)

\* the same of add_token_usage alone
C20_WriteEvicts ==
    \A e \in LimiterOps :
        (e.op = "record" /\ ~e.after.panicked)
            => \A i \in 1..Len(e.after.token_usage) :
                   e.at - e.after.token_usage[i].time <= WINDOW

-----------------------------------------------------------------------------
(* C21: the estimate replaced by the actual usage *)

Replacements == {e \in Ops : e.op = "actual"}

\* C21: replacing the estimate by the actual usage changes the token count of
\* the entry appended last and nothing else: its time, the other entries and
\* the length of the window stay, and nothing is pruned
C21_ReplacementFrame ==
    \A e \in Replacements :
        LET was == e.before.token_usage
            is  == e.after.token_usage
        IN  /\ Len(is) = Len(was)
            /\ \A i \in 1..Len(was) :
                   /\ is[i].time = was[i].time
                   /\ is[i].tokens = IF i = Len(was) THEN e.tokens ELSE was[i].tokens
            /\ e.after = [e.before EXCEPT !.token_usage = is]

C21_Witness ==
    \E e \in Replacements :
        /\ Len(e.before.token_usage) >= 2
        /\ e.before.token_usage[Len(e.before.token_usage)].tokens # e.tokens
        /\ e.before.token_usage[1].tokens # e.tokens
        /\ e.after.token_usage[Len(e.after.token_usage)].tokens = e.tokens

-----------------------------------------------------------------------------
(* C22: the order of the tool calls of a turn *)

\* the tool calls of the turn that have been executed, and where the trace of
\* the turn begins
Done      == next - 1
TurnStart == Len(trace) - Done

\* C22: the tool calls of a turn are executed one at a time in the order the
\* parser returned them, each on the filesystem the one before it left, and
\* the results are accumulated in that order
C22_ToolsInOrder ==
    pc \in {"execute", "update"} =>
        /\ Len(results) = Done
        /\ TurnStart >= 0
        /\ \A i \in 1..Done :
               /\ trace[TurnStart + i].tool = tools[i][1]
               /\ trace[TurnStart + i].param = tools[i][2]
               /\ results[i] = <<tools[i][1], trace[TurnStart + i].kind,
                                 trace[TurnStart + i].body>>
               /\ i < Done => trace[TurnStart + i + 1].before = trace[TurnStart + i].after
        /\ Done > 0 => files = trace[Len(trace)].after

C22_Witness ==
    /\ pc = "update"
    /\ Len(tools) = 2
    /\ tools[1] # tools[2]
    /\ Done = 2
    /\ trace[TurnStart + 1].after # trace[TurnStart + 1].before
    /\ trace[TurnStart + 2].after # trace[TurnStart + 2].before

-----------------------------------------------------------------------------
(* C23 - C25: what the parser makes of lines that are not well-formed calls *)

ByParser == parsedBy = "parser"

EmptyReadFile == <<"read_file", <<>>>>

\* C23: the parser emits no read_file call with an empty parameter, for
\* read_file("") and for read_file: "" alike
C23_NoEmptyReadFile ==
    ByParser => \A i \in 1..Len(tools) : tools[i] # EmptyReadFile

\* the same of the function-call syntax alone
C23_EmptyCallDropped ==
    (ByParser /\ \A k \in 1..Len(items) :
                     items[k] \in {Line(call_syntax(READ_FILE, <<>>)),
                                   Line(READ_FILE \o <<"(", ")">>)})
        => tools = <<>>

\* the same of extract_tools of app.rs and main.rs
C23_AppNoEmptyReadFile ==
    parsedBy \in {"app", "main"} => \A i \in 1..Len(tools) : tools[i] # EmptyReadFile

\* no CHANGE: line and no read_file or execute_command followed by ( or :
NoToolSyntax(t) ==
    /\ ~contains(t, CHANGE_PREFIX)
    /\ \A tool \in {READ_FILE, EXECUTE_COMMAND} :
           /\ ~contains(t, tool \o <<"(">>)
           /\ ~contains(t, tool \o <<":">>)

\* C24: the parser returns a sequence for every text and never panics; a text
\* with no CHANGE: block and no call syntax yields the empty sequence
C24_ParserTotal ==
    /\ parsedBy # "panic"
    /\ (ByParser /\ NoToolSyntax(text)) => tools = <<>>

C24_Witness ==
    /\ ByParser
    /\ contains(text, READ_FILE)
    /\ contains(text, BRACKET_MARKER)
    /\ NoToolSyntax(text)
    /\ tools = <<>>

\* the text between the marker and the next double quote
BracketCommand(line) ==
    LET rest == Tail_(line, find(line, BRACKET_MARKER) + Len(BRACKET_MARKER))
    IN  SubSeq(rest, 1, find(rest, <<DQUOTE>>) - 1)

\* C25: a line that carries code{"command":" followed by a command and a
\* double quote yields an execute_command call of that command
C25_BracketForm ==
    (ByParser /\ \A k \in 1..Len(items) : items[k].kind = "line")
        => \A k \in 1..Len(items) :
               contains(items[k].lines[1], BRACKET_MARKER)
                   => \E i \in 1..Len(tools) :
                          tools[i] = <<"execute_command",
                                       BracketCommand(items[k].lines[1])>>

-----------------------------------------------------------------------------
(* C26: the bound of the history *)

TurnCompleted == pc = "prompt" /\ turns > 0

\* C26: after every completed turn, with or without tool calls, the history
\* of the chat session holds at most 40 messages
C26_HistoryBounded == TurnCompleted => Len(history) <= 40

\* the same of the turns that executed tool calls, begun with at most 40 messages
C26_ToolTurnBounded ==
    (TurnCompleted /\ ~is_empty(tools) /\ parsedBy = "parser" /\ next > Len(tools))
        => Len(history) <= 40

-----------------------------------------------------------------------------
(* C27: the order of the steps of a turn *)

\* what one step of a session may be, by the step the session is at
StepOrder ==
    /\ pc = "prompt"
           => /\ pc' = "generate"
              /\ lim' = lim /\ ltrace' = ltrace /\ text' = text /\ trace' = trace
    /\ pc = "generate"
           => /\ pc' \in {"parse", "prompt"}
              /\ Len(ltrace') > Len(ltrace)
              /\ ltrace'[Len(ltrace) + 1].op = "admit"
              /\ pc' = "prompt" => Len(ltrace') = Len(ltrace) + 1 /\ text' = text
              /\ pc' = "parse"
                     => /\ Len(ltrace') = Len(ltrace) + 2
                        /\ ltrace'[Len(ltrace) + 2].op = "record"
                        /\ ltrace'[Len(ltrace) + 2].at >= ltrace'[Len(ltrace) + 1].returned
              /\ trace' = trace /\ history' = history
    /\ pc = "parse"
           => /\ pc' \in {"execute", "prompt"}
              /\ lim' = lim /\ ltrace' = ltrace /\ text' = text /\ trace' = trace
              /\ pc' = "execute" => history' = history /\ ~is_empty(tools')
              /\ pc' = "prompt" => history' # history /\ is_empty(tools')
    /\ pc = "execute"
           => /\ pc' \in {"execute", "update", "aborted"}
              /\ lim' = lim /\ ltrace' = ltrace /\ text' = text
              /\ tools' = tools /\ history' = history
              /\ Len(trace') = Len(trace) + 1
              /\ pc' = "update" => next' = Len(tools) + 1
    /\ pc = "update"
           => /\ pc' = "prompt"
              /\ lim' = lim /\ ltrace' = ltrace /\ text' = text
              /\ tools' = tools /\ trace' = trace
              /\ history' # history
    /\ pc # "aborted"

\* C27: a turn runs limiter admission, completion call, parse, tool execution
\* and history update in that order, one step at a time, and the next turn
\* begins only after the history update of the turn before it
C27_TurnOrder == [][StepOrder]_vars

C27_Witness ==
    /\ pc = "generate"
    /\ turns = 2
    /\ Len(ltrace) = 2
    /\ Len(trace) = 2
    /\ Len(history) >= 4
    /\ history[Len(history) - 1] = "system"

-----------------------------------------------------------------------------
(* C28, C29: the contents of a patch block, stored and split again *)

\* the parser was given complete patch blocks and nothing else
OnlyBlocks ==
    /\ ByParser
    /\ ~is_empty(items)
    /\ \A k \in 1..Len(items) : items[k].kind = "block"

\* the CURRENT and NEW lines of a block as they stand between the markers
CurrentOf(b) == join_lines(b.current)
NewOf(b)     == join_lines(b.new)

\* C28: the old and new contents stored for a block are its CURRENT and NEW
\* lines less one leading and one trailing blank line: indentation and other
\* whitespace of the contents are kept
C28_ContentsKept ==
    OnlyBlocks =>
        /\ Len(tools) = Len(items)
        /\ \A k \in 1..Len(items) :
               tools[k] = <<"write_file_delta",
                            delta_text(items[k].path, CurrentOf(items[k]), NewOf(items[k]))>>

\* what is stored is the contents trimmed of all whitespace around them
C28_ContentsTrimmed ==
    OnlyBlocks =>
        /\ Len(tools) = Len(items)
        /\ \A k \in 1..Len(items) :
               tools[k] = <<"write_file_delta",
                            delta_text(items[k].path, trim(CurrentOf(items[k])),
                                       trim(NewOf(items[k])))>>

\* C29: the write_file_delta parameter the parser builds for a block is split
\* by the executor into the path, the old content and the new content of the
\* block, also when the CURRENT part has several lines
C29_SerializeSplit ==
    OnlyBlocks =>
        /\ Len(tools) = Len(items)
        /\ \A k \in 1..Len(items) :
               delta_parts(tools[k][2])
                   = <<items[k].path, CurrentOf(items[k]), NewOf(items[k])>>

\* the same of the blocks whose CURRENT part has at most one line and whose
\* contents have no whitespace around them
C29_OneLineSerializeSplit ==
    OnlyBlocks =>
        \A k \in 1..Len(items) :
            (/\ Len(items[k].current) <= 1
             /\ trim(CurrentOf(items[k])) = CurrentOf(items[k])
             /\ trim(NewOf(items[k])) = NewOf(items[k]))
                => delta_parts(tools[k][2])
                       = <<items[k].path, CurrentOf(items[k]), NewOf(items[k])>>

-----------------------------------------------------------------------------
(* C30: the budget when wait_if_needed returns *)

\* the usage of the trailing 60 seconds at the time an admit returned
UsageAtReturn(e) == sum_tokens(InWindow(e.after.token_usage, e.returned))

\* C30: whenever wait_if_needed returns, the sum of the entries of the
\* trailing 60 seconds is below max_tpm
C30_ReleasedUnderBudget ==
    \A e \in Ops :
        e.op \in {"admit", "admit_record"} => UsageAtReturn(e) < e.after.max_tpm

\* the same of tpm_limiter.rs alone, whose wait is a flat 60 s
C30_TpmReleasedUnderBudget == lim.which = "tpm_limiter" => C30_ReleasedUnderBudget

-----------------------------------------------------------------------------
(* C31: the spacing of the releases *)

\* two admits of limiter.rs or main.rs with no admit between them
ConsecutiveAdmits ==
    {p \in (1..Len(ltrace)) \X (1..Len(ltrace)) :
        /\ lim.which \in {"limiter", "main"}
        /\ p[1] < p[2]
        /\ ltrace[p[1]].op = "admit" /\ ltrace[p[2]].op = "admit"
        /\ \A i \in (p[1] + 1)..(p[2] - 1) : ltrace[i].op # "admit"}

\* C31: the instants at which two consecutive calls to wait_if_needed return
\* are at least min_interval apart, also when the earlier call slept for the
\* window
C31_ReleasesSpaced ==
    \A p \in ConsecutiveAdmits :
        ltrace[p[2]].returned - ltrace[p[1]].returned
            >= ltrace[p[1]].before.min_interval

\* what the code keeps: the later call returns at least min_interval after
\* the earlier call was entered
C31_ReleaseAfterEntry ==
    \A p \in ConsecutiveAdmits :
        ltrace[p[2]].returned - ltrace[p[1]].at
            >= ltrace[p[1]].before.min_interval

-----------------------------------------------------------------------------
(* C32: every call returns, and how late at most *)

\* the longest a call may block: RateLimiter of llm.rs has no min_interval
LongestBlock(l) ==
    (IF l.which = "llm" THEN 0 ELSE l.min_interval) + WINDOW + MARGIN

\* the window holds one entry, younger than 60 s, that alone is max_tpm or more
SingleOverBudget(l, now) ==
    /\ Len(l.token_usage) = 1
    /\ l.token_usage[1].tokens >= l.max_tpm
    /\ now - l.token_usage[1].time < WINDOW

\* C32: every call to wait_if_needed returns, at most min_interval plus 60 s
\* plus 100 ms after it was entered, also when a single recorded usage is by
\* itself max_tpm or more
C32_ReturnsInTime ==
    \A e \in Ops :
        e.op \in {"admit", "admit_record"}
            => /\ e.returned >= e.at
               /\ e.returned - e.at = e.interval_sleep + e.tpm_sleep
               /\ e.returned - e.at <= LongestBlock(e.before)

C32_Witness ==
    \E e \in Ops :
        /\ e.op = "admit"
        /\ e.before.which = "limiter"
        /\ SingleOverBudget(e.before, WindowCheck(e))
        /\ e.interval_sleep > 0
        /\ e.tpm_sleep > 0
        /\ e.returned = clock

-----------------------------------------------------------------------------
(* C36: the timestamp of the entry RateLimiter::wait_if_needed appends *)

\* the entry an admit_record appended
Appended(e) == e.after.token_usage[Len(e.after.token_usage)]

\* C36: the entry wait_if_needed of llm.rs appends for a request is not
\* earlier than the end of the sleep the call served, so it is still in the
\* window 60 s after the request was released
C36_EntryAtRelease ==
    \A e \in Ops :
        (e.op = "admit_record" /\ ~e.after.panicked /\ e.tpm_sleep > 0)
            => /\ Appended(e).time >= e.at + e.tpm_sleep
               /\ InWindow(<<Appended(e)>>, e.returned + WINDOW) # <<>>

\* what the code does: the entry carries the time at which the call was entered
C36_EntryAtCall ==
    \A e \in Ops :
        (e.op = "admit_record" /\ ~e.after.panicked)
            => Appended(e) = [time |-> e.at, tokens |-> e.tokens]

-----------------------------------------------------------------------------
(* C35: the replacement of the estimate when two calls run at once *)

\* the calls that have put their actual usage in the window
Replaced == {c \in Callers : calls[c].pc = "done"}

\* the window after the entry appended at time at was given the tokens
WithActual(q, at, tokens) ==
    [i \in DOMAIN q |-> IF q[i].time = at THEN [q[i] EXCEPT !.tokens = tokens]
                        ELSE q[i]]

\* C35: the replacement a request performs puts the actual usage in the entry
\* that was appended for that request and changes no other entry, however the
\* two calls interleave
C35_OwnEntryReplaced ==
    \A c \in Replaced :
        calls[c].after = WithActual(calls[c].before, calls[c].at, calls[c].actual)

\* what the code does: the replacement goes to the back entry, which is the
\* request's own when no other call was admitted after it
C35_BackEntryReplaced ==
    \A c \in Replaced :
        LET q == calls[c].before
        IN  /\ q # <<>> => calls[c].after = [q EXCEPT ![Len(q)].tokens = calls[c].actual]
            /\ (q # <<>> /\ q[Len(q)].time = calls[c].at)
                   => calls[c].after = WithActual(q, calls[c].at, calls[c].actual)

-----------------------------------------------------------------------------
(* C34: where a patch block ends *)

\* the lines the parser scans for blocks, and the blocks it emits calls for
ScannedLines  == lines(strip_fences(text))
EmittedBlocks == delta_blocks(ScannedLines, 1, <<>>)

\* the call taken from the lines of block b
CallOfBlock(b) ==
    <<"write_file_delta",
      delta_param(ChangePath(ScannedLines[b.change]),
                  push_lines(ScannedLines, b.current + 1, b.separator - 1),
                  push_lines(ScannedLines, b.separator + 1, b.terminator - 1))>>

\* the write_file_delta calls of the parser are those of the emitted blocks
BlocksAreCalls ==
    (ByParser /\ EmittedBlocks # <<>>)
        => tools = [k \in 1..Len(EmittedBlocks) |-> CallOfBlock(EmittedBlocks[k])]

\* C34: a patch block ends at the next CHANGE: line: every emitted
\* write_file_delta has the path of the nearest CHANGE: line before its
\* <<<<<<< CURRENT marker, and no CHANGE: line lies between the CHANGE: line
\* of a call and the >>>>>>> NEW line that ends it
C34_BlockEndsAtNextChange ==
    ByParser =>
        \A k \in 1..Len(EmittedBlocks) :
            LET b == EmittedBlocks[k]
            IN  \A j \in (b.change + 1)..(b.terminator - 1) :
                    ~IsChangeLine(ScannedLines[j])

\* what the code keeps: when every CHANGE: line of the text has its own three
\* markers, each call is taken from the lines of one block
C34_CompleteBlocksApart ==
    (ByParser /\ \A k \in 1..Len(items) : items[k].kind \in {"block", "line"})
        => \A k \in 1..Len(EmittedBlocks) :
               LET b == EmittedBlocks[k]
               IN  \A j \in (b.change + 1)..(b.terminator - 1) :
                       ~IsChangeLine(ScannedLines[j])

-----------------------------------------------------------------------------
(* C37: the lines of an incomplete block *)

\* the text has a CHANGE: line and the parser found no complete block
NoCompleteBlock ==
    /\ \E j \in 1..Len(ScannedLines) : IsChangeLine(ScannedLines[j])
    /\ EmittedBlocks = <<>>

\* line j is content of a block: a <<<<<<< CURRENT line comes before it with
\* no CHANGE: line from there to j
InsideContent(j) ==
    \E a \in 1..(j - 1) :
        /\ starts_with(trim(ScannedLines[a]), MARK_CURRENT)
        /\ \A i \in a..j : ~IsChangeLine(ScannedLines[i])

\* the simple calls line j yields when read by itself
CallsOfLine(j) ==
    LET found == extract_simple_tools(ScannedLines[j])
    IN  {found[k] : k \in 1..Len(found)}

\* C37: when the response has a CHANGE: line but no complete patch block, no
\* emitted call is taken from the content of the incomplete block: each call
\* comes from a line outside the CURRENT and NEW contents
C37_NoCallFromCutBlock ==
    (ByParser /\ NoCompleteBlock) =>
        \A k \in 1..Len(tools) :
            \E j \in 1..Len(ScannedLines) :
                ~InsideContent(j) /\ tools[k] \in CallsOfLine(j)

\* what the code keeps: the calls are those of the lines of the text, and the
\* CHANGE: line and the marker lines yield none
C37_CallsOfLines ==
    (ByParser /\ NoCompleteBlock) =>
        /\ \A k \in 1..Len(tools) :
               \E j \in 1..Len(ScannedLines) : tools[k] \in CallsOfLine(j)
        /\ \A j \in 1..Len(ScannedLines) :
               (\/ IsChangeLine(ScannedLines[j])
                \/ starts_with(trim(ScannedLines[j]), MARK_CURRENT)
                \/ starts_with(trim(ScannedLines[j]), MARK_SEP)
                \/ starts_with(trim(ScannedLines[j]), MARK_NEW))
                   => CallsOfLine(j) = {}

-----------------------------------------------------------------------------
(* C33: a target that exists and cannot be read *)

\* the applies whose target existed and could not be read
UnreadTargets == {e \in Deltas : LET was == e.before[e.applied.at]
                                 IN  was.exists /\ ~was.readable}

\* C33: apply_delta reports Created only when the target did not exist before
\* the call; a target that exists and cannot be read is left unchanged and an
\* error is returned
C33_CreatedOnlyIfMissing ==
    /\ \A e \in Deltas : e.kind = "Created" => ~e.before[e.applied.at].exists
    /\ \A e \in UnreadTargets :
           /\ e.after = e.before
           /\ e.kind \notin {"Created", "Replaced", "Applied"}

\* what the code does: Created is reported whenever the target could not be
\* read, and the target then holds new_content
C33_CreatedWhenUnread ==
    \A e \in Deltas :
        /\ e.kind = "Created" => ~read_ok(e.before[e.applied.at])
        /\ e \in UnreadTargets
               => /\ e.kind = "Created"
                  /\ e.after[e.applied.at] = File(e.applied.new)

====
